---- MODULE Spec2Model ----
(***************************************************************************)
(* Spacedrop (C edition): the connection authorization subsystem           *)
(* (modules/auth_module), the two protected handlers that consume it       *)
(* (/drop and /clip/push), the policy file it loads or creates, the        *)
(* environment file main loads first (modules/env_module), and the saving  *)
(* of uploads into the downloads directory.                                *)
(*                                                                         *)
(* C strings are sequences of one-character strings.  JSON texts are       *)
(* sequences of tokens: a quoted string (with its characters), a decimal   *)
(* integer, or one punctuation character; white space is not a token.      *)
(* A NULL pointer is the record [some |-> FALSE, ...].                     *)
(***************************************************************************)
EXTENDS Integers, Sequences, FiniteSets, TLC

(***************************************************************************)
(* Characters and <ctype.h> / <string.h>                                   *)
(***************************************************************************)
UpperCase == <<"A","B","C","D","E","F","G","H","I","J","K","L","M",
               "N","O","P","Q","R","S","T","U","V","W","X","Y","Z">>
LowerCase == <<"a","b","c","d","e","f","g","h","i","j","k","l","m",
               "n","o","p","q","r","s","t","u","v","w","x","y","z">>
Digits == <<"0","1","2","3","4","5","6","7","8","9">>

\* The one element of a singleton set.  The({e(x) : x \in {v}}) is e(v) with
\* v worked out once, however often e uses it.
The(S) == CHOOSE v \in S : TRUE

\* tolower(3)
tolower(c) ==
    IF \E i \in 1..26 : UpperCase[i] = c
    THEN LowerCase[CHOOSE i \in 1..26 : UpperCase[i] = c]
    ELSE c

\* isdigit(3)
isdigit(c) == \E i \in 1..10 : Digits[i] = c

DigitVal(c) == (CHOOSE i \in 1..10 : Digits[i] = c) - 1

\* strcasecmp(a, b) == 0, written by a plausible slip as strcmp(a, b) == 0
strcmp_eq(a, b) == a = b

\* strcasecmp(a, b) == 0
strcasecmp_eq(a, b) ==
    /\ Len(a) = Len(b)
    /\ \A i \in 1..Len(a) : tolower(a[i]) = tolower(b[i])

\* strncmp(s, prefix, strlen(prefix)) == 0
strncmp_eq(s, prefix) ==
    /\ Len(s) >= Len(prefix)
    /\ SubSeq(s, 1, Len(prefix)) = prefix

\* memmem(hay, needle) != NULL
memmem_found(hay, needle) ==
    \E i \in 1..(Len(hay) - Len(needle) + 1) :
        SubSeq(hay, i, i + Len(needle) - 1) = needle

\* the least i in a..b with P(i), or none when there is none
First(a, b, P(_), none) ==
    IF \E i \in a..b : P(i)
    THEN CHOOSE i \in a..b : P(i) /\ \A j \in a..(i - 1) : ~P(j)
    ELSE none

\* the greatest i in a..b with P(i), or none when there is none
Last(a, b, P(_), none) ==
    IF \E i \in a..b : P(i)
    THEN CHOOSE i \in a..b : P(i) /\ \A j \in (i + 1)..b : ~P(j)
    ELSE none

\* snprintf(dst, cap, "%s", src): at most cap-1 characters are kept
Truncate(s, cap) == IF Len(s) <= cap - 1 THEN s ELSE SubSeq(s, 1, cap - 1)

(***************************************************************************)
(* Tokens of a JSON text                                                   *)
(***************************************************************************)
TStr(s) == [k |-> "str", s |-> s, n |-> 0]
TInt(n) == [k |-> "int", s |-> <<>>, n |-> n]
TP(c)   == [k |-> "p",   s |-> <<c>>, n |-> 0]

NullText == [some |-> FALSE, v |-> <<>>]
Text(js) == [some |-> TRUE, v |-> js]

\* strstr(json + from, "\"key\""): index of the first quoted string equal to
\* key at or after from, 0 for NULL
IdxStr(js, from, key) ==
    LET Hit(i) == js[i].k = "str" /\ js[i].s = key
    IN IF from < 1 THEN 0 ELSE First(from, Len(js), Hit, 0)

\* strchr(json + from, c) for a punctuation character c
IdxP(js, from, c) ==
    LET Hit(i) == js[i].k = "p" /\ js[i].s = <<c>>
    IN IF from < 1 THEN 0 ELSE First(from, Len(js), Hit, 0)

\* while (*k && (*k==':' || isspace(*k))) k++;
SkipColons(js, from) ==
    LET Hit(i) == ~(js[i].k = "p" /\ js[i].s = <<":">>)
    IN First(from, Len(js), Hit, Len(js) + 1)

\* strtoll(json + at, ..., 10): the integer token at that place, else 0
strtoll_at(js, at) ==
    IF at >= 1 /\ at <= Len(js) /\ js[at].k = "int" THEN js[at].n ELSE 0

\* json_find_str_value: NULL or the characters of the string after the key
\* k = strchr(k, ':'), then the skip: the place strtoll or the string test
\* looks at, 0 when there is no key or no colon
AfterColon(js, k) ==
    The({ IF c = 0 THEN 0 ELSE SkipColons(js, c) :
          c \in {IF k = 0 THEN 0 ELSE IdxP(js, k, ":")} })

json_find_str_value(js, key) ==
    The({ IF v >= 1 /\ v <= Len(js) /\ js[v].k = "str"
          THEN [some |-> TRUE, v |-> js[v].s]
          ELSE [some |-> FALSE, v |-> <<>>] :
          v \in {AfterColon(js, k) : k \in {IdxStr(js, 1, key)}} })

\* json_find_ll_value(json + from, key)
json_find_ll_value(js, from, key) ==
    The({ strtoll_at(js, v) :
          v \in {AfterColon(js, k) : k \in {IdxStr(js, from, key)}} })

\* The integers strtoll reads inside the characters of one quoted string:
\* every maximal run of digits, negated when a '-' stands before it.
RECURSIVE RunValue(_, _, _)
RunValue(s, i, acc) ==
    IF i <= Len(s) /\ isdigit(s[i])
    THEN RunValue(s, i + 1, acc * 10 + DigitVal(s[i]))
    ELSE acc

IntsInChars(s) ==
    { (IF i > 1 /\ s[i-1] = "-" THEN -1 ELSE 1) * RunValue(s, i, 0) :
        i \in {j \in 1..Len(s) : isdigit(s[j]) /\ (j = 1 \/ ~isdigit(s[j-1]))} }

\* The integers the scan of json_contains_ll_in_array meets in one token
IntsInToken(t) ==
    IF t.k = "int" THEN {t.n}
    ELSE IF t.k = "str" THEN IntsInChars(t.s)
    ELSE {}

\* json_contains_ll_in_array(json, key, needle) for a non-NULL json
json_contains_ll_in_array(js, key, needle) ==
    \E k \in {IdxStr(js, 1, key)} :
    \E p \in {IF k = 0 THEN 0 ELSE IdxP(js, k, "[")} :
    \E q \in {IF p = 0 THEN 0 ELSE IdxP(js, p, "]")} :
        q # 0 /\ \E i \in p..(q - 1) : needle \in IntsInToken(js[i])


(***************************************************************************)
(* String literals of the sources                                          *)
(***************************************************************************)
S_EVERYONE      == <<"E","V","E","R","Y","O","N","E">>
S_OFF           == <<"O","F","F">>
S_PERSONAL      == <<"P","E","R","S","O","N","A","L">>
S_CONTACTS_ONLY == <<"C","O","N","T","A","C","T","S","_","O","N","L","Y">>
K_mode          == <<"m","o","d","e">>
K_personal      == <<"p","e","r","s","o","n","a","l","_","u","s","e","r","_","i","d">>
K_contacts      == <<"c","o","n","t","a","c","t","s","_","u","s","e","r","_","i","d","s">>
K_UserProfile   == <<"U","s","e","r","P","r","o","f","i","l","e">>
K_ID            == <<"I","D">>
K_User          == <<"U","s","e","r">>
K_Node          == <<"N","o","d","e">>
K_LoginName     == <<"L","o","g","i","n","N","a","m","e">>
K_TailscaleIPs  == <<"T","a","i","l","s","c","a","l","e","I","P","s">>
K_UserID        == <<"U","s","e","r","I","D">>
K_Self          == <<"S","e","l","f">>
K_Peer          == <<"P","e","e","r">>
S_loop4         == <<"1","2","7",".">>
S_loop6         == <<":",":","1">>

(***************************************************************************)
(* The identity oracle: parsing of `tailscale whois --json <ip>` and of    *)
(* `tailscale status --json`.  run_cmd_capture gives NULL when the command *)
(* cannot be run or prints nothing.                                        *)
(***************************************************************************)

\* whois_parse with the flat "User" field read before the nested profile
whois_parse_flat_first(json) ==
    IF ~json.some THEN 0
    ELSE The({
           The({ IF uid # 0 THEN uid
                 ELSE The({ IF idk = 0 THEN 0 ELSE json_find_ll_value(js, idk, K_ID) :
                            idk \in { IF up = 0 THEN 0 ELSE IdxStr(js, up, K_ID) :
                                      up \in {IdxStr(js, 1, K_UserProfile)} } }) :
                 uid \in {json_find_ll_value(js, 1, K_User)} }) :
           js \in {json.v} })

\* tailscale_user_id_for_ip, lines 164-176: UserProfile.ID, else "User"
whois_parse(json) ==
    IF ~json.some THEN 0
    ELSE The({
           The({ IF uid # 0 THEN uid ELSE json_find_ll_value(js, 1, K_User) :
                 uid \in { IF idk = 0 THEN 0 ELSE json_find_ll_value(js, idk, K_ID) :
                           idk \in { IF up = 0 THEN 0 ELSE IdxStr(js, up, K_ID) :
                                     up \in {IdxStr(js, 1, K_UserProfile)} } } }) :
           js \in {json.v} })

\* The characters of one token as they stand in the text
RECURSIVE DecimalChars(_)
DecimalChars(n) ==
    IF n < 0 THEN <<"-">> \o DecimalChars(-n)
    ELSE IF n < 10 THEN <<Digits[n + 1]>>
    ELSE DecimalChars(n \div 10) \o <<Digits[(n % 10) + 1]>>

TokenChars(t) ==
    IF t.k = "str" THEN <<"\"">> \o t.s \o <<"\"">>
    ELSE IF t.k = "int" THEN DecimalChars(t.n)
    ELSE t.s

\* The characters of the tokens js[a..b], a comma's following blank left out
RECURSIVE RegionChars(_, _, _)
RegionChars(js, a, b) ==
    IF a > b THEN <<>> ELSE TokenChars(js[a]) \o RegionChars(js, a + 1, b)

\* while (obj > json && *obj != '{') obj--;
BackToBrace(js, arr) ==
    LET Hit(i) == js[i].k = "p" /\ js[i].s = <<"{">>
    IN Last(1, arr, Hit, 1)

\* lines 193-202: the "UserID" of the object that holds the matched array
status_uid_of(js, arr, end) ==
    The({ IF k # 0 /\ k < end THEN strtoll_at(js, AfterColon(js, k)) ELSE 0 :
          k \in { IdxStr(js, obj, K_UserID) : obj \in {BackToBrace(js, arr)} } })

\* one turn of the loop of tailscale_user_id_from_status_by_ip, lines
\* 187-206, with p at token t ("TailscaleIPs"), arr at its '[' and end at
\* the ']' (0 for a NULL pointer)
RECURSIVE status_scan(_, _, _)
status_turn(js, ip4, t, arr, end) ==
    IF t = 0 THEN 0
    ELSE IF end = 0 THEN status_scan(js, t + 1, ip4)
    ELSE IF \E hay \in {RegionChars(js, arr, end - 1)} : memmem_found(hay, ip4)
         THEN status_uid_of(js, arr, end)
    ELSE status_scan(js, end + 1, ip4)

\* the loop of tailscale_user_id_from_status_by_ip from position p on
status_scan(js, p, ip4) ==
    The({ The({ The({ status_turn(js, ip4, t, arr, end) :
                      end \in {IF arr = 0 THEN 0 ELSE IdxP(js, arr, "]")} }) :
                arr \in {IF t = 0 THEN 0 ELSE IdxP(js, t, "[")} }) :
          t \in {IdxStr(js, p, K_TailscaleIPs)} })

\* tailscale_user_id_from_status_by_ip once the status output is at hand
status_parse(json, ip4) ==
    IF ~json.some THEN 0
    ELSE The({ status_scan(js, 1, ip4) : js \in {json.v} })

(***************************************************************************)
(* Bounds and inputs of the model                                          *)
(***************************************************************************)
\* how many identities the contact list of a hand-written policy file holds
NumContacts == 2

\* sizeof g_mode
ModeCap == 24

\* identities used in the policy files and in the oracle's answers
SampleIds == [owner |-> 42, stranger |-> 5, node |-> 1001]
OwnerId == SampleIds.owner
StrangerId == SampleIds.stranger
ContactIds == [i \in 1..NumContacts |-> StrangerId + 2 * i]        \* 7, 9, ...

\* mode strings found in policy files
M_everyone_lc == <<"e","v","e","r","y","o","n","e">>
M_off_lc      == <<"o","f","f">>
M_personal_mc == <<"P","e","r","s","o","n","a","l">>
M_contacts_lc == <<"c","o","n","t","a","c","t","s","_","o","n","l","y">>
M_admin       == <<"A","D","M","I","N">>
M_long        == <<"C","O","N","T","A","C","T","S","_","O","N","L","Y","_","A","N","D","_","F","R","I","E","N","D","S">>
ModeStrings ==
    { S_EVERYONE, M_everyone_lc, S_OFF, M_off_lc, S_PERSONAL, M_personal_mc,
      S_CONTACTS_ONLY, M_contacts_lc, M_admin, M_long, <<>> }

\* peer addresses as CivetWeb reports them (remote_addr); <<>> is "no address"
A_none    == <<>>
A_lo4     == <<"1","2","7",".","0",".","0",".","1">>
A_lo4b    == <<"1","2","7",".","8",".","9",".","1">>
A_lo6     == <<":",":","1">>
A_v6      == <<"f","d","7","a",":",":","7">>
A_ts5     == <<"1","0","0",".","6","4",".","0",".","5">>
A_ts7     == <<"1","0","0",".","6","4",".","0",".","7">>
A_self    == <<"1","0","0",".","6","4",".","0",".","1">>
A_ts50    == <<"1","0","0",".","6","4",".","0",".","5","0">>
A_lo6s    == <<":",":","1","%","l","o">>
PeerAddrs == { A_none, A_lo4, A_lo4b, A_lo6, A_lo6s, A_v6, A_ts5, A_ts7 }

\* a policy document and its text in the format config_load_or_create writes
\* (lines 272-277), the contact list filled in by hand
PolicyDoc(m, o, cs) == [mode |-> m, owner |-> o, contacts |-> cs]

RECURSIVE ListTokens(_)
ListTokens(cs) ==
    IF cs = <<>> THEN <<>>
    ELSE IF Len(cs) = 1 THEN <<TInt(cs[1])>>
    ELSE <<TInt(cs[1]), TP(",")>> \o ListTokens(Tail(cs))

Serialise(d) ==
    <<TP("{"), TStr(K_mode), TP(":"), TStr(d.mode), TP(","),
      TStr(K_personal), TP(":"), TInt(d.owner), TP(","),
      TStr(K_contacts), TP(":"), TP("[")>> \o ListTokens(d.contacts)
      \o <<TP("]"), TP("}")>>

\* documents an owner may have put in the policy file
HandDocs == { PolicyDoc(m, o, ContactIds) : m \in ModeStrings, o \in {0, OwnerId} }

\* the default document with the owner always written as 0
DefaultDoc_owner_zero(uid) == PolicyDoc(S_EVERYONE, 0, <<>>)

\* the document config_load_or_create writes for a self-lookup result uid
DefaultDoc(uid) == PolicyDoc(S_EVERYONE, uid, <<>>)

\* texts that are no policy document: an empty file, and a file with neither
\* a mode string nor an owner id
Malformed == { <<>>, <<TP("{"), TStr(K_contacts), TP(":"), TP("["), TInt(StrangerId), TP("]"), TP("}")>> }

FileTexts == { Serialise(d) : d \in HandDocs } \cup Malformed

\* answers of `tailscale whois --json <ip>`
WhoisProfile(flat, n) ==
    <<TP("{"), TStr(K_Node), TP(":"), TP("{"), TStr(K_ID), TP(":"), TInt(SampleIds.node), TP(","),
      TStr(K_User), TP(":"), TInt(flat), TP("}"), TP(","),
      TStr(K_UserProfile), TP(":"), TP("{"), TStr(K_ID), TP(":"), TInt(n), TP(","),
      TStr(K_LoginName), TP(":"), TStr(<<"a">>), TP("}"), TP("}")>>
WhoisFlat(n) ==
    <<TP("{"), TStr(K_Node), TP(":"), TP("{"), TStr(K_User), TP(":"), TInt(n), TP("}"), TP(","),
      TStr(K_UserProfile), TP(":"), TP("{"),
      TStr(K_LoginName), TP(":"), TStr(<<"a">>), TP("}"), TP("}")>>

WhoisNames == { "fail", "owner", "contact", "flat_stranger", "empty" }
WhoisText(w) ==
    CASE w = "fail"          -> NullText
      [] w = "owner"         -> Text(WhoisProfile(OwnerId, OwnerId))
      [] w = "contact"       -> Text(WhoisProfile(StrangerId, ContactIds[1]))
      [] w = "flat_stranger" -> Text(WhoisFlat(StrangerId))
      [] w = "empty"         -> Text(<<TP("{"), TP("}")>>)

\* answers of `tailscale status --json`
StatusNode(uid, ips) ==
    <<TP("{"), TStr(K_UserID), TP(":"), TInt(uid), TP(","),
      TStr(K_TailscaleIPs), TP(":"), TP("[")>> \o ips \o <<TP("]"), TP("}")>>
StatusDoc ==
    <<TP("{"), TStr(K_Self), TP(":")>> \o StatusNode(OwnerId, <<TStr(A_self)>>)
    \o <<TP(","), TStr(K_Peer), TP(":"), TP("{"), TStr(<<"k","1">>), TP(":")>>
    \o StatusNode(ContactIds[1], <<TStr(A_ts7), TP(","), TStr(A_v6)>>)
    \o <<TP(","), TStr(<<"k","2">>), TP(":")>>
    \o StatusNode(ContactIds[NumContacts], <<TStr(A_ts50)>>)
    \o <<TP("}"), TP("}")>>

StatusNames == { "fail", "peers" }
StatusText(s) == IF s = "fail" THEN NullText ELSE Text(StatusDoc)

(***************************************************************************)
(* Connection gate (pure part)                                             *)
(***************************************************************************)

\* remote_ip_to_string: 0 when the address is empty, else the address cut at
\* the first '%'
remote_ip_to_string(addr) ==
    IF addr = <<>> THEN [ok |-> FALSE, ip |-> <<>>]
    ELSE LET Pct(i) == addr[i] = "%"
         IN [ok |-> TRUE,
             ip |-> SubSeq(addr, 1, First(1, Len(addr), Pct, Len(addr) + 1) - 1)]

\* is_loopback_ip_str knowing 127.0.0.1 only, not the rest of 127.0.0.0/8
is_loopback_ip_str_one_address(ip) ==
    \/ ip = <<"1","2","7",".","0",".","0",".","1">>
    \/ ip = S_loop6

\* is_loopback_ip_str without the "::1" case
is_loopback_ip_str_v4only(ip) == strncmp_eq(ip, S_loop4)

\* is_loopback_ip_str
is_loopback_ip_str(ip) ==
    \/ strncmp_eq(ip, S_loop4)
    \/ ip = S_loop6

\* tailscale_user_id_for_ip(ip4) with the whois answer w: the identity and
\* whether the whois command was run
tailscale_user_id_for_ip(ip4, w) ==
    IF ip4 = <<>> THEN [uid |-> 0, ran |-> 0]
    ELSE [uid |-> whois_parse(WhoisText(w)), ran |-> 1]

\* tailscale_user_id_from_status_by_ip(ip4) with the status answer s
tailscale_user_id_from_status_by_ip(ip4, s) ==
    IF ip4 = <<>> THEN [uid |-> 0, ran |-> 0]
    ELSE [uid |-> status_parse(StatusText(s), ip4), ran |-> 1]

\* lines 358-359 and 378-379 without the status fallback
resolve_remote_no_fallback(ip, w, s) ==
    The({ [uid |-> a.uid, whois |-> a.ran, status |-> 0] :
          a \in {tailscale_user_id_for_ip(ip, w)} })

\* lines 358-359 and 378-379: whois first, status only when whois gave 0
resolve_remote(ip, w, s) ==
    The({ The({ [uid |-> IF a.uid # 0 THEN a.uid ELSE b.uid,
                 whois |-> a.ran, status |-> b.ran] :
                b \in { IF a.uid = 0 THEN tailscale_user_id_from_status_by_ip(ip, s)
                        ELSE [uid |-> 0, ran |-> 0] } }) :
          a \in {tailscale_user_id_for_ip(ip, w)} })

\* is_allowed_user_id with PERSONAL decided by "an identity was resolved"
is_allowed_user_id_any_known(mode, pid, json, uid) ==
    IF strcasecmp_eq(mode, S_EVERYONE) THEN "allow"
    ELSE IF strcasecmp_eq(mode, S_OFF) THEN "deny"
    ELSE IF strcasecmp_eq(mode, S_PERSONAL) THEN
        (IF uid # 0 THEN "allow" ELSE "deny")
    ELSE IF strcasecmp_eq(mode, S_CONTACTS_ONLY) THEN
        (IF uid = 0 THEN "deny"
         ELSE IF pid # 0 /\ uid = pid THEN "allow"
         ELSE IF ~json.some THEN "undefined"
         ELSE IF json_contains_ll_in_array(json.v, K_contacts, uid) THEN "allow"
         ELSE "deny")
    ELSE "deny"

\* is_allowed_user_id with the owner test of CONTACTS_ONLY left out
is_allowed_user_id_no_owner(mode, pid, json, uid) ==
    IF strcasecmp_eq(mode, S_EVERYONE) THEN "allow"
    ELSE IF strcasecmp_eq(mode, S_OFF) THEN "deny"
    ELSE IF strcasecmp_eq(mode, S_PERSONAL) THEN
        (IF uid # 0 /\ pid # 0 /\ uid = pid THEN "allow" ELSE "deny")
    ELSE IF strcasecmp_eq(mode, S_CONTACTS_ONLY) THEN
        (IF uid = 0 THEN "deny"
         ELSE IF ~json.some THEN "undefined"
         ELSE IF json_contains_ll_in_array(json.v, K_contacts, uid) THEN "allow"
         ELSE "deny")
    ELSE "deny"

\* is_allowed_user_id with an unknown mode falling through to "allow"
is_allowed_user_id_open(mode, pid, json, uid) ==
    IF strcasecmp_eq(mode, S_EVERYONE) THEN "allow"
    ELSE IF strcasecmp_eq(mode, S_OFF) THEN "deny"
    ELSE IF strcasecmp_eq(mode, S_PERSONAL) THEN
        (IF uid # 0 /\ pid # 0 /\ uid = pid THEN "allow" ELSE "deny")
    ELSE IF strcasecmp_eq(mode, S_CONTACTS_ONLY) THEN
        (IF uid = 0 THEN "deny"
         ELSE IF pid # 0 /\ uid = pid THEN "allow"
         ELSE IF ~json.some THEN "undefined"
         ELSE IF json_contains_ll_in_array(json.v, K_contacts, uid) THEN "allow"
         ELSE "deny")
    ELSE "allow"

\* is_allowed_user_id with the OFF test left out
is_allowed_user_id_no_off(mode, pid, json, uid) ==
    IF strcasecmp_eq(mode, S_EVERYONE) THEN "allow"
    ELSE IF strcasecmp_eq(mode, S_PERSONAL) \/ strcasecmp_eq(mode, S_OFF) THEN
        (IF uid # 0 /\ pid # 0 /\ uid = pid THEN "allow" ELSE "deny")
    ELSE IF strcasecmp_eq(mode, S_CONTACTS_ONLY) THEN
        (IF uid = 0 THEN "deny"
         ELSE IF pid # 0 /\ uid = pid THEN "allow"
         ELSE IF ~json.some THEN "undefined"
         ELSE IF json_contains_ll_in_array(json.v, K_contacts, uid) THEN "allow"
         ELSE "deny")
    ELSE "deny"

\* is_allowed_user_id(uid) under the cached mode, owner id and raw document:
\* "allow", "deny", or "undefined" when the contact scan is handed a NULL
\* document (strstr(NULL, ...))
is_allowed_user_id(mode, pid, json, uid) ==
    IF strcasecmp_eq(mode, S_EVERYONE) THEN "allow"
    ELSE IF strcasecmp_eq(mode, S_OFF) THEN "deny"
    ELSE IF strcasecmp_eq(mode, S_PERSONAL) THEN
        (IF uid # 0 /\ pid # 0 /\ uid = pid THEN "allow" ELSE "deny")
    ELSE IF strcasecmp_eq(mode, S_CONTACTS_ONLY) THEN
        (IF uid = 0 THEN "deny"
         ELSE IF pid # 0 /\ uid = pid THEN "allow"
         ELSE IF ~json.some THEN "undefined"
         ELSE IF json_contains_ll_in_array(json.v, K_contacts, uid) THEN "allow"
         ELSE "deny")
    ELSE "deny"

GateResult(v, uid, nw, ns) == [verdict |-> v, uid |-> uid, whois |-> nw, status |-> ns]

\* the EVERYONE branch refusing a connection whose address is unavailable
gate_everyone_needs_ip(r, w, s) ==
    IF r.ok
    THEN The({ GateResult("allow", x.uid, x.whois, x.status) :
               x \in {resolve_remote(r.ip, w, s)} })
    ELSE GateResult("deny", 0, 0, 0)

\* lines 354-363: the EVERYONE branch, r being remote_ip_to_string's result
gate_everyone(r, w, s) ==
    IF r.ok
    THEN The({ GateResult("allow", x.uid, x.whois, x.status) :
               x \in {resolve_remote(r.ip, w, s)} })
    ELSE GateResult("allow", 0, 0, 0)

\* the other modes with `if (!uid) return 0` taken for `if (!uid) return 1`
gate_restricted_fail_open(mode, pid, json, r, w, s) ==
    IF ~r.ok THEN GateResult("deny", 0, 0, 0)
    ELSE The({ IF x.uid = 0 THEN GateResult("allow", 0, x.whois, x.status)
               ELSE GateResult(is_allowed_user_id(mode, pid, json, x.uid),
                               x.uid, x.whois, x.status) :
               x \in { IF is_loopback_ip_str(r.ip)
                       THEN [uid |-> pid, whois |-> 0, status |-> 0]
                       ELSE resolve_remote(r.ip, w, s) } })

\* the other modes without the localhost shortcut of lines 373-376
gate_restricted_no_localhost(mode, pid, json, r, w, s) ==
    IF ~r.ok THEN GateResult("deny", 0, 0, 0)
    ELSE The({ IF x.uid = 0 THEN GateResult("deny", 0, x.whois, x.status)
               ELSE GateResult(is_allowed_user_id(mode, pid, json, x.uid),
                               x.uid, x.whois, x.status) :
               x \in {resolve_remote(r.ip, w, s)} })

\* lines 365-385: every other mode
gate_restricted(mode, pid, json, r, w, s) ==
    IF ~r.ok THEN GateResult("deny", 0, 0, 0)
    ELSE The({ IF x.uid = 0 THEN GateResult("deny", 0, x.whois, x.status)
               ELSE GateResult(is_allowed_user_id(mode, pid, json, x.uid),
                               x.uid, x.whois, x.status) :
               x \in { IF is_loopback_ip_str(r.ip)
                       THEN [uid |-> pid, whois |-> 0, status |-> 0]
                       ELSE resolve_remote(r.ip, w, s) } })

\* auth_is_allowed_conn for the peer address addr, the oracle answering w to
\* whois and s to status: the verdict, *out_user_id and how many times each
\* oracle query ran
auth_is_allowed_conn(mode, pid, json, addr, w, s) ==
    The({ IF strcasecmp_eq(mode, S_EVERYONE)
          THEN gate_everyone(r, w, s)
          ELSE gate_restricted(mode, pid, json, r, w, s) :
          r \in {remote_ip_to_string(addr)} })

(***************************************************************************)
(* State                                                                   *)
(***************************************************************************)
VARIABLES
    g_cfg_path,     \* the resolved location of the policy file, or NULL
    g_cfg_json,     \* the cached raw document, or NULL
    g_mode,         \* char g_mode[24]
    g_personal_id,  \* the cached owner identity
    cfgFile,        \* the policy file at the location the settings select
    req,            \* the last request a handler served, with its effects
    env,            \* which of the location settings are set and non-empty
    others,         \* the other candidate locations that hold a readable file
    boot,           \* the call of auth_init that has just returned
    thr,            \* threads inside config_load_or_create, statement by statement
    environ,        \* the environment of the process: name -> value
    dotenv,         \* the file ".env" in the working directory
    loaded,         \* the call of env_load_default that has just returned
    downloads,      \* the files of the downloads directory: path -> content
    wrk             \* worker threads saving an upload, system call by system call

\* the part of the state that start-up of the policy store and the serving
\* of one request at a time leave alone
aside == <<thr, environ, dotenv, loaded, downloads, wrk>>

vars == <<g_cfg_path, g_cfg_json, g_mode, g_personal_id, cfgFile, req, env, others, boot, aside>>

\* the candidate locations of the policy file, lines 219-225
P_config   == "$SPACEDROP_CONFIG"
P_confpath == "$SPACEDROP_CONF_PATH"
P_confdir  == "$SPACEDROP_CONF_DIR/config.json"
P_default  == "~/.config/spacedrop/config.json"
NullPath   == "NULL"
Candidates == { P_config, P_confpath, P_confdir, P_default }

\* env_get(key, ...) finds a non-empty value for each of the three settings
Settings(c, p, d) == [config |-> c, conf_path |-> p, conf_dir |-> d]
NoSettings == Settings(FALSE, FALSE, FALSE)

\* lines 228-243 with CONF_PATH asked before CONFIG
config_path_swapped(e) ==
    IF e.conf_path THEN P_confpath
    ELSE IF e.config THEN P_config
    ELSE IF e.conf_dir THEN P_confdir
    ELSE P_default

\* lines 228-243: the location the settings select
config_path(e) ==
    IF e.config THEN P_config
    ELSE IF e.conf_path THEN P_confpath
    ELSE IF e.conf_dir THEN P_confdir
    ELSE P_default

\* the policy file: present or not, whether fopen(path, "rb") and
\* fopen(path, "wb") succeed on it, and its text
File(e, r, w, t) == [exists |-> e, readable |-> r, writable |-> w, text |-> t]

InitialFiles ==
    { File(FALSE, FALSE, w, <<>>) : w \in BOOLEAN }
    \cup { File(TRUE, TRUE, TRUE, t) : t \in FileTexts }
    \cup { File(TRUE, FALSE, w, Serialise(PolicyDoc(S_OFF, OwnerId, ContactIds))) : w \in BOOLEAN }

NoEffects ==
    [status |-> 0, responses |-> 0, ret |-> 0, reads |-> 0, clip |-> 0,
     files |-> 0, urls |-> 0, tmpLeft |-> FALSE, crashed |-> FALSE, flag |-> "none"]

NoGate == GateResult("none", 0, 0, 0)

\* what a request carries and what its environment answers: method and
\* content type, the class of Content-Length, whether malloc fails, the
\* "text" and "kind" form fields, SPACEDROP_DROP_TEXT, the outcome of the
\* first and of the second run of pbcopy, of the save and of `open`, how mg_handle_form_request ended ("nofile",
\* "aborted" after a temporary file was made, "stored"), whether the upload
\* is a URL wrapper, SPACEDROP_KEEP_WRAPPER, and whether the downloads
\* directory, rename(2) and the copy fallback work
PostText ==
    [method |-> "POST", ct |-> "urlencoded", len |-> "ok", oom |-> FALSE,
     text |-> "plain", kind |-> "text", dropText |-> "clipboard",
     clipOk |-> TRUE, clipOk2 |-> TRUE, saveOk |-> TRUE, openOk |-> TRUE, mp |-> "stored",
     wrapper |-> FALSE, keepWrap |-> FALSE, dlOk |-> TRUE, renameOk |-> TRUE,
     copyOk |-> TRUE]

NoInput == [PostText EXCEPT !.method = "none"]

NoRequest ==
    [h |-> "none", addr |-> <<>>, w |-> "fail", s |-> "fail",
     in |-> NoInput, gate |-> NoGate, eff |-> NoEffects]

\* what is known of a call of auth_init: its return value, the return value
\* of config_load_or_create and the way it took ("nopath", "loaded",
\* "created", "writefail", "rereadfail"), the owner the self lookup found,
\* whether the path could be built and how the write went, the file the
\* call found, and the way and the owner of the call right before it, if
\* nothing happened in between
Booted(ret, ok, how, uid, pathOk, wr, was, prev) ==
    [called |-> TRUE, ret |-> ret, ok |-> ok, how |-> how, uid |-> uid,
     pathOk |-> pathOk, wr |-> wr, was |-> was, prev |-> prev]

NoBoot ==
    [called |-> FALSE, ret |-> 0, ok |-> FALSE, how |-> "none", uid |-> 0,
     pathOk |-> FALSE, wr |-> "full", was |-> File(FALSE, FALSE, FALSE, <<>>),
     prev |-> [how |-> "none", uid |-> 0]]

\* the worker threads of the server (SPACEDROP_THREADS, hello.c:68)
NumThreads == 2
Threads == 1..NumThreads

\* no thread is inside config_load_or_create.  pc: the statement a thread
\* is at; js: the pointer its last slurp_file returned; uid: its self lookup;
\* ok: the return value of its config_load_or_create; opens: how many times
\* fopen(path, "wb") has succeeded; was: the file when the threads started
NoThreads ==
    [pc |-> [t \in Threads |-> "idle"], js |-> [t \in Threads |-> NullText],
     uid |-> [t \in Threads |-> 0], ok |-> [t \in Threads |-> FALSE],
     opens |-> 0, was |-> File(FALSE, FALSE, FALSE, <<>>)]

\* an environment without variables
NoEnviron == [k \in {} |-> <<>>]

\* the file ".env": whether fopen(path, "r") succeeds, and its lines
Dotenv(e, ls) == [exists |-> e, lines |-> ls]
NoDotenv == Dotenv(FALSE, <<>>)

\* what is known of a call of env_load_default: its return value, the
\* environment it found, and whether a call of setenv failed
Loaded(ret, before, failed) ==
    [called |-> TRUE, ret |-> ret, before |-> before, failed |-> failed]
NoLoad == [called |-> FALSE, ret |-> 0, before |-> NoEnviron, failed |-> FALSE]

\* an empty downloads directory
NoDownloads == [k \in {} |-> <<>>]

\* no worker is saving an upload.  pc: the system call a worker is at; name:
\* the file name of its upload; tmp: the content of its temporary file; i:
\* the counter of unique_enumerated_path; out: the path it returned; had:
\* the paths the downloads directory held before any upload
NoWorkers ==
    [pc |-> [t \in Threads |-> "idle"], name |-> [t \in Threads |-> <<>>],
     tmp |-> [t \in Threads |-> "none"], i |-> [t \in Threads |-> 0],
     out |-> [t \in Threads |-> <<>>], had |-> {}]

\* nothing of it is in use
AsideIdle ==
    /\ thr = NoThreads
    /\ environ = NoEnviron /\ dotenv = NoDotenv /\ loaded = NoLoad
    /\ downloads = NoDownloads /\ wrk = NoWorkers

\* static initialisers, lines 215-218; the file system is as the owner left
\* it, no location setting is set
Init ==
    /\ g_cfg_path = NullPath
    /\ g_cfg_json = NullText
    /\ g_mode = S_EVERYONE
    /\ g_personal_id = 0
    /\ cfgFile \in InitialFiles
    /\ req = NoRequest
    /\ env = NoSettings
    /\ others = {}
    /\ boot = NoBoot
    /\ AsideIdle

(***************************************************************************)
(* Policy store                                                            *)
(***************************************************************************)
\* slurp_file(path)
slurp_file(f) == IF f.exists /\ f.readable THEN Text(f.text) ELSE NullText

\* what a write that stops inside the first number of the text leaves
CutInNumber(text) ==
    LET IsInt(i) == text[i].k = "int"
    IN The({ IF i = 0 THEN <<>>
             ELSE SubSeq(text, 1, i - 1)
                  \o (IF text[i].n >= 10 THEN <<TInt(text[i].n \div 10)>> ELSE <<>>) :
             i \in {First(1, Len(text), IsInt, 0)} })

\* how fwrite may go: all of the text, none of it, or a part of it
Writes == { "full", "none", "part" }

\* spit_file(path, s): the file afterwards and the return value; a short
\* write leaves the bytes that were written and returns 0
spit_file(f, text, wr) ==
    IF ~f.writable THEN [file |-> f, ok |-> FALSE]
    ELSE IF wr = "none"
         THEN [file |-> File(TRUE, f.exists => f.readable, TRUE, <<>>), ok |-> FALSE]
    ELSE IF wr = "part"
         THEN [file |-> File(TRUE, f.exists => f.readable, TRUE, CutInNumber(text)),
               ok |-> FALSE]
    ELSE [file |-> File(TRUE, f.exists => f.readable, TRUE, text), ok |-> TRUE]

\* lines 265-268: `tailscale ip -4`, then whois, then the status fallback;
\* self = <<>> stands for "no address" (NULL or an empty first line)
self_lookup(self, w, s) ==
    IF self = <<>> THEN 0 ELSE resolve_remote(self, w, s).uid

\* the globals and the file after config_load_or_create, its return value,
\* the way it took and the owner the self lookup found
Globals(path, json, mode, pid, file, ok, how, uid) ==
    [path |-> path, json |-> json, mode |-> mode, pid |-> pid, file |-> file,
     ok |-> ok, how |-> how, uid |-> uid]

\* lines 228-243: g_cfg_path once it is set
PathNow == IF g_cfg_path # NullPath THEN g_cfg_path ELSE config_path(env)

\* lines 246-262: the file was read; js is its text
config_load(js) ==
    The({ Globals(PathNow, Text(js),
                  IF mode.some THEN Truncate(mode.v, ModeCap) ELSE g_mode,
                  json_find_ll_value(js, 1, K_personal), cfgFile, TRUE, "loaded", 0) :
          mode \in {json_find_str_value(js, K_mode)} })

\* lines 264-284: no readable file; a default document is written for the
\* owner uid and read back
config_create(uid, wr) ==
    The({ IF ~out.ok
          THEN Globals(PathNow, NullText, g_mode, g_personal_id, out.file, FALSE,
                       "writefail", uid)
          ELSE The({ Globals(PathNow, again, S_EVERYONE, uid, out.file, again.some,
                             IF again.some THEN "created" ELSE "rereadfail", uid) :
                     again \in {slurp_file(out.file)} }) :
          out \in {spit_file(cfgFile, Serialise(DefaultDoc(uid)), wr)} })

\* config_load_or_create taking a readable file without a mode string for a
\* missing one
config_load_or_create_strict(pathOk, self, w, s, wr) ==
    IF g_cfg_path = NullPath /\ ~pathOk
    THEN Globals(NullPath, g_cfg_json, g_mode, g_personal_id, cfgFile, FALSE, "nopath", 0)
    ELSE IF /\ cfgFile.exists /\ cfgFile.readable
            /\ json_find_str_value(cfgFile.text, K_mode).some
         THEN config_load(cfgFile.text)
    ELSE The({ config_create(uid, wr) : uid \in {self_lookup(self, w, s)} })

\* config_load_or_create writing the document back after it has loaded it
config_load_or_create_rewrite(pathOk, self, w, s, wr) ==
    IF g_cfg_path = NullPath /\ ~pathOk
    THEN Globals(NullPath, g_cfg_json, g_mode, g_personal_id, cfgFile, FALSE, "nopath", 0)
    ELSE IF cfgFile.exists /\ cfgFile.readable
         THEN The({ [c EXCEPT !.file = spit_file(cfgFile,
                        Serialise(PolicyDoc(c.mode, c.pid, <<>>)), wr).file] :
                    c \in {config_load(cfgFile.text)} })
    ELSE The({ config_create(uid, wr) : uid \in {self_lookup(self, w, s)} })

\* config_load_or_create: the globals and the file afterwards, and the
\* return value.  pathOk: the path could be built (lines 228-243).
config_load_or_create(pathOk, self, w, s, wr) ==
    IF g_cfg_path = NullPath /\ ~pathOk
    THEN Globals(NullPath, g_cfg_json, g_mode, g_personal_id, cfgFile, FALSE, "nopath", 0)
    ELSE IF cfgFile.exists /\ cfgFile.readable
         THEN config_load(cfgFile.text)
    ELSE The({ config_create(uid, wr) : uid \in {self_lookup(self, w, s)} })

\* auth_init() with the fail-open fallback of lines 289-293 left out
auth_init_no_fallback(pathOk, self, w, s, wr) ==
    \E r \in {config_load_or_create(pathOk, self, w, s, wr)} :
       /\ g_cfg_path' = r.path
       /\ g_cfg_json' = r.json
       /\ g_mode' = r.mode
       /\ g_personal_id' = r.pid
       /\ cfgFile' = r.file
       /\ boot' = Booted(1, r.ok, r.how, r.uid, pathOk, wr, cfgFile,
                          [how |-> boot.how, uid |-> boot.uid])
       /\ UNCHANGED <<req, env, others, aside>>

\* auth_init() whose fallback resets the owner and leaves the mode
auth_init_keeps_mode(pathOk, self, w, s, wr) ==
    \E r \in {config_load_or_create(pathOk, self, w, s, wr)} :
       /\ g_cfg_path' = r.path
       /\ g_cfg_json' = r.json
       /\ g_mode' = r.mode
       /\ g_personal_id' = IF r.ok THEN r.pid ELSE 0
       /\ cfgFile' = r.file
       /\ boot' = Booted(1, r.ok, r.how, r.uid, pathOk, wr, cfgFile,
                          [how |-> boot.how, uid |-> boot.uid])
       /\ UNCHANGED <<req, env, others, aside>>

\* auth_init(): on failure the mode falls back to EVERYONE, the owner to 0;
\* the return value is 1 either way
auth_init(pathOk, self, w, s, wr) ==
    \E r \in {config_load_or_create(pathOk, self, w, s, wr)} :
       /\ g_cfg_path' = r.path
       /\ g_cfg_json' = r.json
       /\ g_mode' = IF r.ok THEN r.mode ELSE S_EVERYONE
       /\ g_personal_id' = IF r.ok THEN r.pid ELSE 0
       /\ cfgFile' = r.file
       /\ boot' = Booted(1, r.ok, r.how, r.uid, pathOk, wr, cfgFile,
                          [how |-> boot.how, uid |-> boot.uid])
       /\ UNCHANGED <<req, env, others, aside>>

\* auth_mode_str(): a pointer to g_mode
auth_mode_str == g_mode

\* auth_init is called by main before the server starts (hello.c:65); the
\* model lets it be called again between two requests
AuthInit ==
    /\ req = NoRequest
    /\ \E pathOk \in BOOLEAN, self \in {<<>>, A_self}, w \in {"fail", "owner"},
          s \in StatusNames, wr \in Writes :
            auth_init(pathOk, self, w, s, wr)

\* main drops the return value of auth_init, prints auth_mode_str() and goes
\* on to serve (hello.c:65-66)
StartServer ==
    /\ boot # NoBoot
    /\ boot' = NoBoot
    /\ UNCHANGED <<g_cfg_path, g_cfg_json, g_mode, g_personal_id, cfgFile, req, env, others, aside>>

\* the owner edits, replaces or removes the policy file out of band
EditTargets ==
    { File(FALSE, FALSE, TRUE, <<>>),
      File(TRUE, TRUE, TRUE, <<>>),
      File(TRUE, TRUE, TRUE, Serialise(PolicyDoc(S_PERSONAL, 0, ContactIds))),
      File(TRUE, TRUE, TRUE, Serialise(PolicyDoc(M_contacts_lc, OwnerId, ContactIds))) }
    \cup { File(TRUE, TRUE, TRUE, t) : t \in Malformed }

EditFile ==
    /\ req = NoRequest /\ boot = NoBoot
    /\ \E f \in EditTargets : cfgFile' = f /\ cfgFile' # cfgFile
    /\ UNCHANGED <<g_cfg_path, g_cfg_json, g_mode, g_personal_id, req, env, others, boot, aside>>

(***************************************************************************)
(* The protected handlers                                                  *)
(***************************************************************************)
\* one response written, the handler returns 1.  clip: how often the
\* clipboard was written; flag: the "ok" or "clipboard" member of the
\* response, where it reports on the clipboard
Eff(status, reads, clip, files, urls, tmpLeft) ==
    [status |-> status, responses |-> 1, ret |-> 1, reads |-> reads, clip |-> clip,
     files |-> files, urls |-> urls, tmpLeft |-> tmpLeft, crashed |-> FALSE,
     flag |-> "none"]

Flag(ok) == IF ok THEN "true" ELSE "false"

Crashed == [NoEffects EXCEPT !.crashed = TRUE]

B2N(b) == IF b THEN 1 ELSE 0

\* handle_drop, Path A (lines 400-500)
drop_urlencoded(rq) ==
    IF rq.len = "toolarge" THEN Eff(413, 0, 0, 0, 0, FALSE)
    ELSE IF rq.len = "ok" /\ rq.oom THEN Eff(500, 0, 0, 0, 0, FALSE)
    ELSE LET reads == B2N(rq.len = "ok")
             text  == IF rq.len = "ok" THEN rq.text ELSE "none"
             has   == text # "none"
             clip1 == B2N(has /\ rq.dropText \in {"clipboard", "both"})
             save  == has /\ rq.dropText \in {"file", "both"}
             saved == save /\ rq.saveOk
             did   == clip1 = 1 /\ rq.clipOk
             again == has /\ (IF clip1 = 1 THEN rq.clipOk2 ELSE rq.clipOk)
         IN IF text = "url" THEN Eff(200, reads, 0, 0, B2N(rq.openOk), FALSE)
            ELSE IF rq.dropText = "both"
                 THEN [Eff(IF saved THEN 200 ELSE 500, reads, clip1, B2N(saved), 0, FALSE)
                        EXCEPT !.flag = IF saved THEN Flag(did) ELSE "none"]
            ELSE IF rq.dropText = "file"
                 THEN Eff(IF saved THEN 200 ELSE 500, reads, clip1, B2N(saved), 0, FALSE)
            ELSE [Eff(200, reads, clip1 + B2N(has), 0, 0, FALSE) EXCEPT !.flag = Flag(again)]

\* handle_drop, Path B, returning without a response when the save fails
drop_multipart_silent_failure(rq) ==
    IF rq.mp = "nofile" THEN Eff(400, 1, 0, 0, 0, FALSE)
    ELSE IF rq.mp = "aborted" THEN Eff(400, 1, 0, 0, 0, TRUE)
    ELSE IF rq.wrapper THEN
        (IF ~rq.keepWrap THEN Eff(200, 1, 0, 0, B2N(rq.openOk), FALSE)
         ELSE IF rq.dlOk /\ rq.renameOk THEN Eff(200, 1, 0, 1, B2N(rq.openOk), FALSE)
         ELSE Eff(200, 1, 0, 0, B2N(rq.openOk), TRUE))
    ELSE IF rq.dlOk /\ (rq.renameOk \/ rq.copyOk) THEN Eff(200, 1, 0, 1, 0, FALSE)
    ELSE [Eff(500, 1, 0, 0, 0, FALSE) EXCEPT !.status = 0, !.responses = 0]

\* handle_drop, Path B (lines 503-619)
drop_multipart(rq) ==
    IF rq.mp = "nofile" THEN Eff(400, 1, 0, 0, 0, FALSE)
    ELSE IF rq.mp = "aborted" THEN Eff(400, 1, 0, 0, 0, TRUE)
    ELSE IF rq.wrapper THEN
        (IF ~rq.keepWrap THEN Eff(200, 1, 0, 0, B2N(rq.openOk), FALSE)
         ELSE IF rq.dlOk /\ rq.renameOk THEN Eff(200, 1, 0, 1, B2N(rq.openOk), FALSE)
         ELSE Eff(200, 1, 0, 0, B2N(rq.openOk), TRUE))
    ELSE IF rq.dlOk /\ (rq.renameOk \/ rq.copyOk) THEN Eff(200, 1, 0, 1, 0, FALSE)
    ELSE Eff(500, 1, 0, 0, 0, FALSE)

\* handle_drop with the method test standing before the authorization gate
drop_effects_method_first(verdict, rq) ==
    IF rq.method # "POST" THEN Eff(405, 0, 0, 0, 0, FALSE)
    ELSE IF verdict # "allow" THEN Eff(403, 0, 0, 0, 0, FALSE)
    ELSE IF rq.ct = "urlencoded" THEN drop_urlencoded(rq)
    ELSE IF rq.ct = "multipart" THEN drop_multipart(rq)
    ELSE Eff(400, 0, 0, 0, 0, FALSE)

\* handle_drop (lines 368-631) after the gate has answered
drop_effects(verdict, rq) ==
    IF verdict # "allow" THEN Eff(403, 0, 0, 0, 0, FALSE)
    ELSE IF rq.method # "POST" THEN Eff(405, 0, 0, 0, 0, FALSE)
    ELSE IF rq.ct = "urlencoded" THEN drop_urlencoded(rq)
    ELSE IF rq.ct = "multipart" THEN drop_multipart(rq)
    ELSE Eff(400, 0, 0, 0, 0, FALSE)

\* handle_clip_push (lines 223-340) after the gate has answered
clip_effects(verdict, rq) ==
    IF verdict # "allow" THEN Eff(403, 0, 0, 0, 0, FALSE)
    ELSE IF rq.method # "POST" THEN Eff(405, 0, 0, 0, 0, FALSE)
    ELSE IF rq.ct = "urlencoded" THEN
        (IF rq.len = "toolarge" THEN Eff(413, 0, 0, 0, 0, FALSE)
         ELSE IF rq.oom THEN Eff(500, 0, 0, 0, 0, FALSE)
         ELSE LET reads == B2N(rq.len = "ok")
                  kind  == IF rq.len = "ok" THEN rq.kind ELSE "text"
                  text  == IF rq.len = "ok" THEN rq.text ELSE "none"
              IN IF kind # "text" THEN Eff(400, reads, 0, 0, 0, FALSE)
                 ELSE IF text = "none" THEN Eff(422, reads, 0, 0, 0, FALSE)
                 ELSE [Eff(200, reads, 1, 0, 0, FALSE) EXCEPT !.flag = Flag(rq.clipOk)])
    ELSE IF rq.ct = "multipart" THEN
        (IF rq.mp = "nofile" THEN Eff(400, 1, 0, 0, 0, FALSE)
         ELSE IF rq.mp = "aborted" THEN Eff(400, 1, 0, 0, 0, TRUE)
         ELSE [Eff(200, 1, 1, 0, 0, FALSE) EXCEPT !.flag = Flag(rq.clipOk)])
    ELSE Eff(400, 0, 0, 0, 0, FALSE)

\* what a build may do with the verdict: an undefined one (the contact scan
\* over a NULL document) may allow, deny or end the process
Outcomes(verdict) ==
    IF verdict = "undefined" THEN {"allow", "deny", "crash"} ELSE {verdict}

Served(h, addr, w, s, rq, g, eff) ==
    [h |-> h, addr |-> addr, w |-> w, s |-> s, in |-> rq, gate |-> g, eff |-> eff]

\* handle_drop whose gate loads a readable policy file on its first call
handle_drop_lazy_init(addr, w, s, rq) ==
    \E c \in {IF g_cfg_path = NullPath /\ cfgFile.exists /\ cfgFile.readable
              THEN config_load(cfgFile.text)
              ELSE Globals(g_cfg_path, g_cfg_json, g_mode, g_personal_id, cfgFile,
                           TRUE, "none", 0)} :
      \E g \in {auth_is_allowed_conn(c.mode, c.pid, c.json, addr, w, s)} :
       /\ \E v \in Outcomes(g.verdict) :
            req' = Served("drop", addr, w, s, rq, g,
                          IF v = "crash" THEN Crashed ELSE drop_effects(v, rq))
       /\ g_cfg_path' = c.path /\ g_cfg_json' = c.json
       /\ g_mode' = c.mode /\ g_personal_id' = c.pid
       /\ UNCHANGED <<cfgFile, env, others, boot, aside>>

handle_drop(addr, w, s, rq) ==
    \E g \in {auth_is_allowed_conn(g_mode, g_personal_id, g_cfg_json, addr, w, s)} :
       /\ \E v \in Outcomes(g.verdict) :
            req' = Served("drop", addr, w, s, rq, g,
                          IF v = "crash" THEN Crashed ELSE drop_effects(v, rq))
       /\ UNCHANGED <<g_cfg_path, g_cfg_json, g_mode, g_personal_id, cfgFile, env, others, boot, aside>>

\* handle_clip_push whose gate reads the policy file again on every call
handle_clip_push_reload(addr, w, s, rq) ==
    \E c \in {IF g_cfg_path # NullPath /\ cfgFile.exists /\ cfgFile.readable
              THEN config_load(cfgFile.text)
              ELSE Globals(g_cfg_path, g_cfg_json, g_mode, g_personal_id, cfgFile,
                           TRUE, "none", 0)} :
      \E g \in {auth_is_allowed_conn(c.mode, c.pid, c.json, addr, w, s)} :
       /\ \E v \in Outcomes(g.verdict) :
            req' = Served("clip", addr, w, s, rq, g,
                          IF v = "crash" THEN Crashed ELSE clip_effects(v, rq))
       /\ g_cfg_json' = c.json /\ g_mode' = c.mode /\ g_personal_id' = c.pid
       /\ UNCHANGED <<g_cfg_path, cfgFile, env, others, boot, aside>>

handle_clip_push(addr, w, s, rq) ==
    \E g \in {auth_is_allowed_conn(g_mode, g_personal_id, g_cfg_json, addr, w, s)} :
       /\ \E v \in Outcomes(g.verdict) :
            req' = Served("clip", addr, w, s, rq, g,
                          IF v = "crash" THEN Crashed ELSE clip_effects(v, rq))
       /\ UNCHANGED <<g_cfg_path, g_cfg_json, g_mode, g_personal_id, cfgFile, env, others, boot, aside>>

\* the requests served to /drop and to /clip/push
DropRequests ==
    { PostText,
      [PostText EXCEPT !.method = "GET"],
      [PostText EXCEPT !.text = "url"],
      [PostText EXCEPT !.dropText = "both"],
      [PostText EXCEPT !.ct = "multipart"],
      [PostText EXCEPT !.ct = "multipart", !.wrapper = TRUE],
      [PostText EXCEPT !.ct = "other"] }

ClipRequests ==
    { PostText,
      [PostText EXCEPT !.method = "GET"],
      [PostText EXCEPT !.ct = "multipart"],
      [PostText EXCEPT !.ct = "other"] }

\* a connection arrives at /drop; the record of the request before it is gone
HandleDrop ==
    /\ req = NoRequest /\ boot = NoBoot
    /\ \E addr \in PeerAddrs, w \in WhoisNames, s \in StatusNames, rq \in DropRequests :
            handle_drop(addr, w, s, rq)

\* a connection arrives at /clip/push
HandleClipPush ==
    /\ req = NoRequest /\ boot = NoBoot
    /\ \E addr \in PeerAddrs, w \in WhoisNames, s \in StatusNames, rq \in ClipRequests :
            handle_clip_push(addr, w, s, rq)

\* "Connection: close": the connection and what the handler knew of the
\* caller are discarded once the response is sent
CloseConnection ==
    /\ req # NoRequest
    /\ req' = NoRequest
    /\ UNCHANGED <<g_cfg_path, g_cfg_json, g_mode, g_personal_id, cfgFile, env, others, boot, aside>>

Next ==
    AuthInit \/ StartServer \/ EditFile \/ HandleDrop \/ HandleClipPush \/ CloseConnection

Spec == Init /\ [][Next]_vars

\* the policy store alone: start-up, and the owner at work on the file
NextStore == AuthInit \/ StartServer \/ EditFile

SpecStore == Init /\ [][NextStore]_vars

\* the settings of the location, with policy files at the locations that
\* come after the selected one
Later(e) ==
    IF e.config
    THEN (IF e.conf_path THEN {P_confpath} ELSE {})
         \cup (IF e.conf_dir THEN {P_confdir} ELSE {}) \cup {P_default}
    ELSE IF e.conf_path THEN (IF e.conf_dir THEN {P_confdir} ELSE {}) \cup {P_default}
    ELSE IF e.conf_dir THEN {P_default}
    ELSE {}

PathFiles ==
    { File(FALSE, FALSE, w, <<>>) : w \in BOOLEAN }
    \cup { File(TRUE, r, TRUE, Serialise(PolicyDoc(S_OFF, OwnerId, ContactIds))) : r \in BOOLEAN }

InitPath ==
    /\ g_cfg_path = NullPath
    /\ g_cfg_json = NullText
    /\ g_mode = S_EVERYONE
    /\ g_personal_id = 0
    /\ cfgFile \in PathFiles
    /\ req = NoRequest
    /\ env \in { Settings(c, p, d) : c \in BOOLEAN, p \in BOOLEAN, d \in BOOLEAN }
    /\ others \in SUBSET Later(env)
    /\ boot = NoBoot
    /\ AsideIdle

NextPath == AuthInit \/ StartServer

SpecPath == InitPath /\ [][NextPath]_vars

(***************************************************************************)
(* The handlers on every path: requests of every shape, and every outcome  *)
(* of the clipboard, the save, `open`, the form parser and the downloads   *)
(* directory.                                                              *)
(***************************************************************************)
DropInputs ==
    { [PostText EXCEPT !.method = "GET"], [PostText EXCEPT !.ct = "other"] }
    \cup { [PostText EXCEPT !.len = l, !.oom = o, !.text = t, !.dropText = d,
                            !.clipOk = c, !.clipOk2 = c2, !.saveOk = sv, !.openOk = op] :
           l \in {"ok", "toolarge", "zero"}, o \in BOOLEAN, t \in {"plain", "url", "none"},
           d \in {"clipboard", "file", "both", "other"}, c \in BOOLEAN, c2 \in BOOLEAN,
           sv \in BOOLEAN, op \in BOOLEAN }
    \cup { [PostText EXCEPT !.ct = "multipart", !.mp = m, !.wrapper = wr, !.keepWrap = k,
                            !.dlOk = dl, !.renameOk = rn, !.copyOk = cp, !.openOk = op] :
           m \in {"nofile", "aborted", "stored"}, wr \in BOOLEAN, k \in BOOLEAN,
           dl \in BOOLEAN, rn \in BOOLEAN, cp \in BOOLEAN, op \in BOOLEAN }

ClipInputs ==
    { [PostText EXCEPT !.method = "GET"], [PostText EXCEPT !.ct = "other"] }
    \cup { [PostText EXCEPT !.len = l, !.oom = o, !.kind = k, !.text = t, !.clipOk = c] :
           l \in {"ok", "toolarge", "zero"}, o \in BOOLEAN, k \in {"text", "image"},
           t \in {"plain", "none"}, c \in BOOLEAN }
    \cup { [PostText EXCEPT !.ct = "multipart", !.mp = m, !.clipOk = c] :
           m \in {"nofile", "aborted", "stored"}, c \in BOOLEAN }

ServeAddrs == { A_lo4, A_ts5 }

ServeDrop ==
    /\ req = NoRequest /\ boot = NoBoot
    /\ \E addr \in ServeAddrs, w \in {"fail", "owner"}, rq \in DropInputs :
            handle_drop(addr, w, "fail", rq)

ServeClipPush ==
    /\ req = NoRequest /\ boot = NoBoot
    /\ \E addr \in ServeAddrs, w \in {"fail", "owner"}, rq \in ClipInputs :
            handle_clip_push(addr, w, "fail", rq)

ServeFiles ==
    { File(FALSE, FALSE, TRUE, <<>>),
      File(TRUE, TRUE, TRUE, Serialise(PolicyDoc(S_PERSONAL, OwnerId, ContactIds))),
      File(TRUE, TRUE, TRUE, Serialise(PolicyDoc(S_OFF, OwnerId, ContactIds))) }

InitServe ==
    /\ g_cfg_path = NullPath
    /\ g_cfg_json = NullText
    /\ g_mode = S_EVERYONE
    /\ g_personal_id = 0
    /\ cfgFile \in ServeFiles
    /\ req = NoRequest
    /\ env = NoSettings
    /\ others = {}
    /\ boot = NoBoot
    /\ AsideIdle

NextServe == AuthInit \/ StartServer \/ ServeDrop \/ ServeClipPush \/ CloseConnection

SpecServe == InitServe /\ [][NextServe]_vars

(***************************************************************************)
(* Two threads in auth_init at once.  auth_module.c has no lock and no      *)
(* once-guard (lines 215-295): the statements of config_load_or_create run  *)
(* interleaved, each statement that reads or writes a global or the file    *)
(* being one step.  fwrite and fclose of spit_file go through in full.      *)
(***************************************************************************)
RECURSIVE NumDigits(_)
NumDigits(n) == IF n < 10 THEN 1 ELSE 1 + NumDigits(n \div 10)

\* the tokens among the last k bytes "[]\n}\n" of the default document
Leftover(k) ==
    (IF k >= 5 THEN <<TP("[")>> ELSE <<>>)
    \o (IF k >= 4 THEN <<TP("]")>> ELSE <<>>)
    \o (IF k >= 2 THEN <<TP("}")>> ELSE <<>>)

\* a default document written at offset 0 of a file that holds another one,
\* lines 63-68: what the longer old text had beyond the new one stays
Overlay(old, new) ==
    IF old = <<>> THEN new
    ELSE new \o Leftover(NumDigits(json_find_ll_value(old, 1, K_personal))
                         - NumDigits(json_find_ll_value(new, 1, K_personal)))

ThreadAt(t, pc) == [thr EXCEPT !.pc[t] = pc]

\* lines 228-243: the location is resolved if no thread has stored one yet
clc_path(t) ==
    /\ thr.pc[t] = "path"
    /\ \/ /\ g_cfg_path' = PathNow
          /\ thr' = ThreadAt(t, "slurp")
       \/ /\ g_cfg_path = NullPath
          /\ g_cfg_path' = NullPath
          /\ thr' = [ThreadAt(t, "ret") EXCEPT !.ok[t] = FALSE]
    /\ UNCHANGED <<g_cfg_json, g_mode, g_personal_id, cfgFile, req, env, others, boot,
                   environ, dotenv, loaded, downloads, wrk>>

\* lines 246-247: g_cfg_json = slurp_file(g_cfg_path), and the test of it
clc_slurp(t) ==
    /\ thr.pc[t] = "slurp"
    /\ \E js \in {slurp_file(cfgFile)} :
          /\ g_cfg_json' = js
          /\ thr' = [ThreadAt(t, IF js.some THEN "mode" ELSE "lookup") EXCEPT !.js[t] = js]
    /\ UNCHANGED <<g_cfg_path, g_mode, g_personal_id, cfgFile, req, env, others, boot,
                   environ, dotenv, loaded, downloads, wrk>>

\* the document a thread parses: the one it has read, or the one the global
\* holds by now, as the build may keep the pointer or load it again
Parsed(t) == { thr.js[t] } \cup (IF g_cfg_json.some THEN { g_cfg_json } ELSE {})

\* lines 248-249: the mode string, if the document holds one
clc_mode(t) ==
    /\ thr.pc[t] = "mode"
    /\ \E js \in Parsed(t) : \E mode \in {json_find_str_value(js.v, K_mode)} :
          g_mode' = IF mode.some THEN Truncate(mode.v, ModeCap) ELSE g_mode
    /\ thr' = ThreadAt(t, "pid")
    /\ UNCHANGED <<g_cfg_path, g_cfg_json, g_personal_id, cfgFile, req, env, others, boot,
                   environ, dotenv, loaded, downloads, wrk>>

\* lines 250-251: the owner identity, and return 1
clc_pid(t) ==
    /\ thr.pc[t] = "pid"
    /\ \E js \in Parsed(t) : g_personal_id' = json_find_ll_value(js.v, 1, K_personal)
    /\ thr' = [ThreadAt(t, "ret") EXCEPT !.ok[t] = TRUE]
    /\ UNCHANGED <<g_cfg_path, g_cfg_json, g_mode, cfgFile, req, env, others, boot,
                   environ, dotenv, loaded, downloads, wrk>>

\* lines 265-268: the self lookup
clc_lookup(t) ==
    /\ thr.pc[t] = "lookup"
    /\ \E self \in {<<>>, A_self}, w \in {"fail", "owner"}, s \in StatusNames :
          thr' = [ThreadAt(t, "open") EXCEPT !.uid[t] = self_lookup(self, w, s)]
    /\ UNCHANGED <<g_cfg_path, g_cfg_json, g_mode, g_personal_id, cfgFile, req, env,
                   others, boot, environ, dotenv, loaded, downloads, wrk>>

\* spit_file, line 63: fopen(path, "wb") truncates the file
clc_open(t) ==
    /\ thr.pc[t] = "open"
    /\ IF cfgFile.writable
       THEN /\ cfgFile' = File(TRUE, cfgFile.exists => cfgFile.readable, TRUE, <<>>)
            /\ thr' = [ThreadAt(t, "write") EXCEPT !.opens = @ + 1]
       ELSE /\ cfgFile' = cfgFile
            /\ thr' = [ThreadAt(t, "ret") EXCEPT !.ok[t] = FALSE]
    /\ UNCHANGED <<g_cfg_path, g_cfg_json, g_mode, g_personal_id, req, env, others, boot,
                   environ, dotenv, loaded, downloads, wrk>>

\* spit_file, lines 65-67: the buffer goes to the file at offset 0
clc_write(t) ==
    /\ thr.pc[t] = "write"
    /\ cfgFile' = [cfgFile EXCEPT
                     !.text = Overlay(cfgFile.text, Serialise(DefaultDoc(thr.uid[t])))]
    /\ thr' = ThreadAt(t, "reread")
    /\ UNCHANGED <<g_cfg_path, g_cfg_json, g_mode, g_personal_id, req, env, others, boot,
                   environ, dotenv, loaded, downloads, wrk>>

\* line 281: g_cfg_json = slurp_file(g_cfg_path)
clc_reread(t) ==
    /\ thr.pc[t] = "reread"
    /\ \E js \in {slurp_file(cfgFile)} :
          /\ g_cfg_json' = js
          /\ thr' = [ThreadAt(t, "set_mode") EXCEPT !.js[t] = js]
    /\ UNCHANGED <<g_cfg_path, g_mode, g_personal_id, cfgFile, req, env, others, boot,
                   environ, dotenv, loaded, downloads, wrk>>

\* line 282
clc_set_mode(t) ==
    /\ thr.pc[t] = "set_mode"
    /\ g_mode' = S_EVERYONE
    /\ thr' = ThreadAt(t, "set_pid")
    /\ UNCHANGED <<g_cfg_path, g_cfg_json, g_personal_id, cfgFile, req, env, others, boot,
                   environ, dotenv, loaded, downloads, wrk>>

\* lines 283-284: the owner identity, and return g_cfg_json != NULL
clc_set_pid(t) ==
    /\ thr.pc[t] = "set_pid"
    /\ g_personal_id' = thr.uid[t]
    /\ \E js \in { thr.js[t], g_cfg_json } :
          thr' = [ThreadAt(t, "ret") EXCEPT !.ok[t] = js.some]
    /\ UNCHANGED <<g_cfg_path, g_cfg_json, g_mode, cfgFile, req, env, others, boot,
                   environ, dotenv, loaded, downloads, wrk>>

\* auth_init, lines 288-294: the fallback when config_load_or_create gave 0
clc_ret(t) ==
    /\ thr.pc[t] = "ret"
    /\ g_mode' = IF thr.ok[t] THEN g_mode ELSE S_EVERYONE
    /\ g_personal_id' = IF thr.ok[t] THEN g_personal_id ELSE 0
    /\ thr' = ThreadAt(t, "done")
    /\ UNCHANGED <<g_cfg_path, g_cfg_json, cfgFile, req, env, others, boot,
                   environ, dotenv, loaded, downloads, wrk>>

\* the policy files the threads may find
RaceFiles ==
    { File(FALSE, FALSE, w, <<>>) : w \in BOOLEAN }
    \cup { File(TRUE, TRUE, TRUE, Serialise(PolicyDoc(S_OFF, OwnerId, ContactIds))) }

\* every thread is about to enter config_load_or_create for the first time
InitRace ==
    /\ g_cfg_path = NullPath
    /\ g_cfg_json = NullText
    /\ g_mode = S_EVERYONE
    /\ g_personal_id = 0
    /\ cfgFile \in RaceFiles
    /\ req = NoRequest
    /\ env = NoSettings
    /\ others = {}
    /\ boot = NoBoot
    /\ thr = [NoThreads EXCEPT !.pc = [t \in Threads |-> "path"], !.was = cfgFile]
    /\ environ = NoEnviron /\ dotenv = NoDotenv /\ loaded = NoLoad
    /\ downloads = NoDownloads /\ wrk = NoWorkers

NextRace ==
    \E t \in Threads :
        \/ clc_path(t) \/ clc_slurp(t) \/ clc_mode(t) \/ clc_pid(t) \/ clc_lookup(t)
        \/ clc_open(t) \/ clc_write(t) \/ clc_reread(t) \/ clc_set_mode(t)
        \/ clc_set_pid(t) \/ clc_ret(t)

SpecRace == InitRace /\ [][NextRace]_vars

(***************************************************************************)
(* The environment file (modules/env_module).  main loads ".env" before    *)
(* anything else (hello.c:56-62).  Lines are shorter than the buffer of    *)
(* fgets.                                                                  *)
(***************************************************************************)
isspace(c) == c \in { " ", "\t", "\n", "\r", "\f" }

\* line[strcspn(line, "\r\n")] = 0
CutEol(l) ==
    LET IsEol(i) == l[i] \in { "\r", "\n" }
    IN The({ IF i = 0 THEN l ELSE SubSeq(l, 1, i - 1) : i \in {First(1, Len(l), IsEol, 0)} })

\* while (*p && isspace(*p)) p++
SkipSpace(l) ==
    LET NoSpace(i) == ~isspace(l[i])
    IN The({ IF i = 0 THEN <<>> ELSE SubSeq(l, i, Len(l)) : i \in {First(1, Len(l), NoSpace, 0)} })

\* strtrim(s)
strtrim(l) ==
    The({ IF p = <<>> THEN <<>>
          ELSE SubSeq(p, 1, Last(1, Len(p), LAMBDA i : ~isspace(p[i]), 0)) :
          p \in {SkipSpace(l)} })

\* strip_quotes(s)
strip_quotes(l) ==
    IF /\ Len(l) >= 2
       /\ \/ l[1] = "\"" /\ l[Len(l)] = "\""
          \/ l[1] = "'" /\ l[Len(l)] = "'"
    THEN SubSeq(l, 2, Len(l) - 1)
    ELSE l

NoPair == [some |-> FALSE, key |-> <<>>, val |-> <<>>]

\* env_load_file, lines 52-67: the key and the value a line gives, if any
env_parse_line(line) ==
    LET Split(p) ==
          LET IsEq(i) == p[i] = "="
          IN The({ IF eq = 0 THEN NoPair
                   ELSE The({ IF key = <<>> THEN NoPair
                              ELSE [some |-> TRUE, key |-> key,
                                    val |-> strip_quotes(strtrim(SubSeq(p, eq + 1, Len(p))))] :
                              key \in {strtrim(SubSeq(p, 1, eq - 1))} }) :
                   eq \in {First(1, Len(p), IsEq, 0)} })
    IN The({ IF p = <<>> \/ p[1] = "#" THEN NoPair ELSE Split(p) :
             p \in {SkipSpace(CutEol(line))} })

\* getenv(key), setenv(key, val, 1)
getenv(e, key) == IF key \in DOMAIN e THEN Text(e[key]) ELSE NullText
setenv(e, key, val) == [k \in DOMAIN e \cup {key} |-> IF k = key THEN val ELSE e[k]]

\* env_load_file, lines 49-75: the lines from the i-th on.  calls counts the
\* calls of setenv, the failAt-th of which fails (none if failAt = 0)
RECURSIVE env_load_lines(_, _, _, _, _, _, _)
env_load_lines(lines, i, e, count, calls, failAt, overwrite) ==
    IF i > Len(lines) THEN [env |-> e, ret |-> count, failed |-> failAt \in 1..calls]
    ELSE The({ IF ~kv.some
               THEN env_load_lines(lines, i + 1, e, count, calls, failAt, overwrite)
               ELSE IF ~overwrite /\ getenv(e, kv.key).some
               THEN env_load_lines(lines, i + 1, e, count, calls, failAt, overwrite)
               ELSE IF calls + 1 = failAt
               THEN env_load_lines(lines, i + 1, e, count, calls + 1, failAt, overwrite)
               ELSE env_load_lines(lines, i + 1, setenv(e, kv.key, kv.val), count + 1,
                                   calls + 1, failAt, overwrite) :
               kv \in {env_parse_line(lines[i])} })

\* env_load_file(path, overwrite): the environment afterwards and the return
\* value
env_load_file(file, e, overwrite, failAt) ==
    IF ~file.exists THEN [env |-> e, ret |-> -1, failed |-> FALSE]
    ELSE env_load_lines(file.lines, 1, e, 0, 0, failAt, overwrite)

\* env_load_default() with overwrite = 1
env_load_default_overwrite(file, e, failAt) == env_load_file(file, e, TRUE, failAt)

\* env_load_default()
env_load_default(file, e, failAt) == env_load_file(file, e, FALSE, failAt)

\* how many lines a file ".env" of the model has at most
MaxLines == 3

\* names, values and lines of files ".env"
N_A == <<"A">>
N_B == <<"B">>
V_0 == <<"0">>
V_1 == <<"1">>
L_A1    == <<"A", "=", "1">>
L_A2    == <<"A", "=", "2", "\n">>
L_Bq    == <<" ", "B", " ", "=", "\t", "'", "x", " ", "y", "'", " ", "\r", "\n">>
L_hash  == <<"#", "A", "=", "3", "\n">>
L_noeq  == <<"A", " ", "2", "\n">>
L_nokey == <<" ", "=", "5", "\n">>
L_Ae    == <<"A", "=", "\n">>
EnvLines == { L_A1, L_A2, L_Bq, L_hash, L_noeq, L_nokey, L_Ae }

EnvFiles ==
    { NoDotenv } \cup { Dotenv(TRUE, ls) : ls \in UNION { [1..n -> EnvLines] : n \in 0..MaxLines } }

\* the environment the process is started in
Environs ==
    { NoEnviron, setenv(NoEnviron, N_A, V_0), setenv(NoEnviron, N_A, <<>>),
      setenv(NoEnviron, N_B, V_0) }

InitEnv ==
    /\ g_cfg_path = NullPath
    /\ g_cfg_json = NullText
    /\ g_mode = S_EVERYONE
    /\ g_personal_id = 0
    /\ cfgFile = File(FALSE, FALSE, TRUE, <<>>)
    /\ req = NoRequest
    /\ env = NoSettings
    /\ others = {}
    /\ boot = NoBoot
    /\ thr = NoThreads
    /\ environ \in Environs
    /\ dotenv \in EnvFiles
    /\ loaded = NoLoad
    /\ downloads = NoDownloads /\ wrk = NoWorkers

\* main calls env_load_default (hello.c:57)
EnvLoadDefault ==
    /\ \E failAt \in 0..MaxLines : \E r \in {env_load_default(dotenv, environ, failAt)} :
          /\ environ' = r.env
          /\ loaded' = Loaded(r.ret, environ, r.failed)
    /\ UNCHANGED <<g_cfg_path, g_cfg_json, g_mode, g_personal_id, cfgFile, req, env,
                   others, boot, thr, dotenv, downloads, wrk>>

NextEnv == EnvLoadDefault

SpecEnv == InitEnv /\ [][NextEnv]_vars

(***************************************************************************)
(* Worker threads saving uploads (drop_module.c 569-610).  CivetWeb runs   *)
(* the handler on one of its worker threads (num_threads, hello.c:68-89);  *)
(* the system calls of two saves run interleaved.                          *)
(***************************************************************************)
\* the downloads directory after expand_home
DlDir == <<"~", "d">>

\* unique_enumerated_path, lines 47-49 and 58-62: the i-th candidate
enumerated_path(dir, basename, i) ==
    LET IsDot(j) == basename[j] = "."
    IN The({ dir \o <<"/">>
             \o (IF dot = 0 THEN basename ELSE SubSeq(basename, 1, dot - 1))
             \o (IF i = 0 THEN <<>> ELSE <<" ", "(">> \o DecimalChars(i) \o <<")">>)
             \o (IF dot = 0 THEN <<>> ELSE SubSeq(basename, dot, Len(basename))) :
             dot \in {Last(1, Len(basename), IsDot, 0)} })

\* file names of uploads
F_atxt == <<"a", ".", "t", "x", "t">>
F_tgz  == <<"b", ".", "t", "a", "r", ".", "g", "z">>
F_bare == <<"c">>
UploadNames == { F_atxt, F_tgz, F_bare }

\* the content of the temporary file of a worker
TmpOf(t) == <<"upload", t>>

\* a request with a file reaches handle_drop on worker t; the file is in the
\* temporary file of the worker (lines 503-524)
upload_start(t) ==
    /\ wrk.pc[t] = "idle"
    /\ \E name \in UploadNames :
          wrk' = [wrk EXCEPT !.pc[t] = "stat", !.name[t] = name, !.tmp[t] = TmpOf(t),
                             !.i[t] = 0]
    /\ UNCHANGED <<g_cfg_path, g_cfg_json, g_mode, g_personal_id, cfgFile, req, env,
                   others, boot, thr, environ, dotenv, loaded, downloads>>

\* unique_enumerated_path, lines 57-65: one turn of the loop, one stat(2)
uep_stat(t) ==
    /\ wrk.pc[t] = "stat"
    /\ \E path \in {enumerated_path(DlDir, wrk.name[t], wrk.i[t])} :
          wrk' = IF path \in DOMAIN downloads
                 THEN [wrk EXCEPT !.i[t] = @ + 1]
                 ELSE [wrk EXCEPT !.pc[t] = "rename", !.out[t] = path]
    /\ UNCHANGED <<g_cfg_path, g_cfg_json, g_mode, g_personal_id, cfgFile, req, env,
                   others, boot, thr, environ, dotenv, loaded, downloads>>

\* lines 572-604: rename(tmp, out), or when it fails the copy through
\* fopen(out, "wb"); both put the upload at out whatever is there.  When
\* neither works the temporary file is deleted (line 612)
save_upload(t) ==
    /\ wrk.pc[t] = "rename"
    /\ \/ /\ downloads' = [p \in DOMAIN downloads \cup {wrk.out[t]} |->
                              IF p = wrk.out[t] THEN wrk.tmp[t] ELSE downloads[p]]
          /\ wrk' = [wrk EXCEPT !.pc[t] = "saved"]
       \/ /\ downloads' = downloads
          /\ wrk' = [wrk EXCEPT !.pc[t] = "failed"]
    /\ UNCHANGED <<g_cfg_path, g_cfg_json, g_mode, g_personal_id, cfgFile, req, env,
                   others, boot, thr, environ, dotenv, loaded>>

\* what the downloads directory may hold before: files of the owner
OwnFile == <<"own">>
DownloadDirs ==
    { NoDownloads,
      [p \in {enumerated_path(DlDir, F_atxt, 0)} |-> OwnFile],
      [p \in {enumerated_path(DlDir, F_atxt, 0), enumerated_path(DlDir, F_atxt, 1)} |-> OwnFile],
      [p \in {enumerated_path(DlDir, F_tgz, 0), enumerated_path(DlDir, F_bare, 1)} |-> OwnFile] }

InitUpload ==
    /\ g_cfg_path = NullPath
    /\ g_cfg_json = NullText
    /\ g_mode = S_EVERYONE
    /\ g_personal_id = 0
    /\ cfgFile = File(FALSE, FALSE, TRUE, <<>>)
    /\ req = NoRequest
    /\ env = NoSettings
    /\ others = {}
    /\ boot = NoBoot
    /\ thr = NoThreads
    /\ environ = NoEnviron /\ dotenv = NoDotenv /\ loaded = NoLoad
    /\ downloads \in DownloadDirs
    /\ wrk = [NoWorkers EXCEPT !.had = DOMAIN downloads]

NextUpload == \E t \in Threads : upload_start(t) \/ uep_stat(t) \/ save_upload(t)

SpecUpload == InitUpload /\ [][NextUpload]_vars

(***************************************************************************)
(* Properties                                                              *)
(***************************************************************************)
\* two letters that are the upper and the lower case of one another
CasePair(x, y) == \E i \in 1..26 : {x, y} = {UpperCase[i], LowerCase[i]}

\* two strings that differ at most in letter case
SameButCase(a, b) ==
    /\ Len(a) = Len(b)
    /\ \A i \in 1..Len(a) : a[i] = b[i] \/ CasePair(a[i], b[i])

\* the cached mode is the named one, in any letter case
ModeIs(name) == SameButCase(g_mode, name)

\* a handler has served a request and its record is still at hand
ServedReq == req.h # "none"

Allowed == req.gate.verdict = "allow"
Denied == req.gate.verdict = "deny"

Range(f) == { f[i] : i \in DOMAIN f }

\* peer addresses by their shape
HasColon(a) == \E i \in 1..Len(a) : a[i] = ":"
Loopback4 == { A_lo4, A_lo4b }
Loopback6 == { A_lo6, A_lo6s }

\* the identity each whois answer carries
WhoisAnswer ==
    [fail |-> 0, owner |-> OwnerId, contact |-> ContactIds[1],
     flat_stranger |-> StrangerId, empty |-> 0]

\* C1: under mode EVERYONE, in any letter case, every connection is allowed,
\* an unavailable peer address and a failing oracle included; when the
\* address is unavailable or both oracle queries fail the reported identity
\* is 0.
C1_EveryoneAlwaysAllows ==
    (ServedReq /\ ModeIs(S_EVERYONE)) =>
        /\ Allowed
        /\ (req.addr = A_none \/ (req.w = "fail" /\ req.s = "fail")) => req.gate.uid = 0

C1_Witness ==
    /\ req.h = "drop" /\ g_mode = M_everyone_lc
    /\ req.addr = A_ts5 /\ req.w = "fail" /\ req.s = "fail"
    /\ req.gate = GateResult("allow", 0, 1, 1)

\* C2: fail-closed.  Under every mode other than EVERYONE a connection whose
\* identity resolves to 0 is denied: the peer address is unavailable, both
\* oracle queries fail for a remote peer, or the peer is loopback while the
\* owner identity is 0.
C2_FailClosed ==
    (ServedReq /\ ~ModeIs(S_EVERYONE)) =>
        /\ req.gate.uid = 0 => Denied
        /\ req.addr = A_none => Denied /\ req.gate.uid = 0
        /\ (req.addr \in Loopback4 \cup Loopback6 /\ g_personal_id = 0) => Denied
        /\ (req.addr \notin Loopback4 \cup Loopback6 /\ req.w = "fail" /\ req.s = "fail")
                => Denied /\ req.gate.uid = 0

C2_Witness ==
    /\ req.h = "clip" /\ g_mode = M_contacts_lc
    /\ req.addr = A_ts7 /\ req.w = "empty" /\ req.s = "fail"
    /\ req.gate = GateResult("deny", 0, 1, 1)
    /\ req.eff.status = 403

\* C3: under mode OFF every connection is denied, loopback peers and peers
\* resolved to the owner or to a listed contact included.
C3_OffAlwaysDenies ==
    (ServedReq /\ ModeIs(S_OFF)) => Denied

C3_Witness ==
    /\ req.h = "drop" /\ g_mode = M_off_lc
    /\ req.addr = A_lo4 /\ g_personal_id = OwnerId
    /\ req.gate = GateResult("deny", OwnerId, 0, 0)

\* C4: under mode PERSONAL a connection is allowed exactly when the resolved
\* identity is non-zero and equals the owner identity; with owner identity 0
\* nobody is allowed.
C4_PersonalOwnerOnly ==
    (ServedReq /\ ModeIs(S_PERSONAL)) =>
        /\ Allowed <=> (req.gate.uid # 0 /\ req.gate.uid = g_personal_id)
        /\ ~Allowed => Denied
        /\ g_personal_id = 0 => Denied

C4_Witness ==
    /\ req.h = "drop" /\ g_mode = M_personal_mc /\ g_personal_id = OwnerId
    /\ req.addr = A_ts5 /\ req.w = "owner"
    /\ req.gate = GateResult("allow", OwnerId, 1, 0)
    /\ req.eff.status = 200

\* the texts the cached document can hold, each with the contact identities
\* its author listed
LoadedDocs ==
    { [text |-> Serialise(d), contacts |-> Range(d.contacts)] : d \in HandDocs }
    \cup { [text |-> Serialise(DefaultDoc(u)), contacts |-> {}] : u \in {0, OwnerId} }
    \cup { [text |-> <<>>, contacts |-> {}],
           [text |-> <<TP("{"), TStr(K_contacts), TP(":"), TP("["), TInt(StrangerId),
                       TP("]"), TP("}")>>,
            contacts |-> {StrangerId}] }

\* C5: under mode CONTACTS_ONLY a connection is allowed exactly when the
\* resolved identity is non-zero and is the owner identity or one of the
\* contact identities of the loaded policy document.
C5_ContactsOnly ==
    (ServedReq /\ ModeIs(S_CONTACTS_ONLY)) =>
        /\ g_cfg_json.some
        /\ \E d \in LoadedDocs :
            /\ d.text = g_cfg_json.v
            /\ Allowed <=> /\ req.gate.uid # 0
                           /\ \/ req.gate.uid = g_personal_id
                              \/ req.gate.uid \in d.contacts
        /\ ~Allowed => Denied

C5_Witness ==
    /\ req.h = "clip" /\ g_mode = M_contacts_lc /\ g_personal_id = OwnerId
    /\ g_cfg_json = Text(Serialise(PolicyDoc(M_contacts_lc, OwnerId, ContactIds)))
    /\ req.addr = A_ts7 /\ req.w = "fail" /\ req.s = "peers"
    /\ req.gate = GateResult("allow", ContactIds[1], 1, 1)

\* C6: a cached mode that is none of EVERYONE, OFF, PERSONAL, CONTACTS_ONLY
\* in any letter case denies every connection, whatever identity is resolved.
C6_UnknownModeDenies ==
    (/\ ServedReq
     /\ ~ModeIs(S_EVERYONE) /\ ~ModeIs(S_OFF)
     /\ ~ModeIs(S_PERSONAL) /\ ~ModeIs(S_CONTACTS_ONLY)) => Denied

C6_Witness ==
    /\ req.h = "drop" /\ g_mode = M_admin /\ g_personal_id = OwnerId
    /\ req.addr = A_ts5 /\ req.w = "owner"
    /\ req.gate = GateResult("deny", OwnerId, 1, 0)

\* mode strings in other letter cases than the policy files hold
M_everyone_mc == <<"E","v","e","r","y","O","n","e">>
M_off_mc      == <<"o","F","f">>
M_personal_lc == <<"p","e","r","s","o","n","a","l">>
M_contacts_mc == <<"C","o","n","t","a","c","t","s","_","O","n","l","y">>
M_admin_lc    == <<"a","d","m","i","n">>
OtherSpellings ==
    ModeStrings \cup {M_everyone_mc, M_off_mc, M_personal_lc, M_contacts_mc, M_admin_lc}

\* C7: mode comparison ignores letter case.  Had the cached mode been spelt
\* in any other letter case, the same peer, oracle answers and policy
\* document would have got the same verdict and the same reported identity.
C7_ModeCaseInsensitive ==
    ServedReq =>
        \A m \in { m2 \in OtherSpellings : m2 # g_mode /\ SameButCase(m2, g_mode) } :
        \E g \in { auth_is_allowed_conn(m, g_personal_id, g_cfg_json,
                                        req.addr, req.w, req.s) } :
            /\ g.verdict = req.gate.verdict
            /\ g.uid = req.gate.uid

C7_Witness ==
    /\ req.h = "drop" /\ g_mode = M_personal_mc /\ g_personal_id = OwnerId
    /\ req.addr = A_lo4b
    /\ req.gate = GateResult("allow", OwnerId, 0, 0)
    /\ auth_is_allowed_conn(M_personal_lc, g_personal_id, g_cfg_json,
                            req.addr, req.w, req.s) = req.gate

\* C8: a denied run of the /drop or the /clip/push handler does nothing but
\* answer 403: no body is read, the clipboard is not written, no file is
\* made or left behind, no URL is opened, whatever the method and the
\* content type of the request.
C8_DeniedOnly403 ==
    (ServedReq /\ Denied) =>
        /\ req.eff.status = 403 /\ req.eff.responses = 1
        /\ req.eff.reads = 0 /\ req.eff.clip = 0
        /\ req.eff.files = 0 /\ req.eff.urls = 0
        /\ ~req.eff.tmpLeft /\ ~req.eff.crashed

C8_Witness ==
    /\ req.h = "drop" /\ req.in.method = "GET"
    /\ g_mode = S_OFF /\ Denied
    /\ req.eff = Eff(403, 0, 0, 0, 0, FALSE)

\* C9 as first stated: a peer address with a colon resolves to 0 and the
\* oracle is not asked, under every mode.
C9_ColonRejected ==
    (ServedReq /\ HasColon(req.addr)) =>
        /\ req.gate.uid = 0
        /\ req.gate.whois = 0 /\ req.gate.status = 0

\* C9: a peer address with a colon is not rejected.  ::1 (a scope suffix
\* after '%' dropped) under a mode other than EVERYONE is taken for the
\* owner: the reported identity is the owner identity and the oracle is not
\* asked.  Any other colon address, and ::1 under EVERYONE, goes to whois,
\* then to status when whois gave 0, and the identity found is reported.
C9_ColonResolved ==
    (ServedReq /\ HasColon(req.addr)) =>
        IF req.addr \in Loopback6 /\ ~ModeIs(S_EVERYONE)
        THEN /\ req.gate.uid = g_personal_id
             /\ req.gate.whois = 0 /\ req.gate.status = 0
        ELSE /\ req.gate.whois = 1
             /\ req.gate.status = (IF WhoisAnswer[req.w] = 0 THEN 1 ELSE 0)
             /\ WhoisAnswer[req.w] # 0 => req.gate.uid = WhoisAnswer[req.w]
             /\ (req.addr = A_v6 /\ WhoisAnswer[req.w] = 0 /\ req.s = "peers")
                    => req.gate.uid = ContactIds[1]

C9_Witness ==
    /\ req.h = "drop" /\ g_mode = S_CONTACTS_ONLY
    /\ req.addr = A_v6 /\ req.w = "fail" /\ req.s = "peers"
    /\ req.gate = GateResult("allow", ContactIds[1], 1, 1)

\* C10 as first stated: for a loopback peer (127.0.0.0/8) under every mode,
\* EVERYONE included, the reported identity is the owner identity and the
\* oracle is not asked.
C10_LoopbackNeverAsks ==
    (ServedReq /\ req.addr \in Loopback4) =>
        /\ req.gate.uid = g_personal_id
        /\ req.gate.whois = 0 /\ req.gate.status = 0

\* C10: for a loopback peer (127.0.0.0/8) under every mode other than
\* EVERYONE the reported identity is the owner identity (0 when that is 0)
\* and the oracle is not asked.  Under EVERYONE the peer is resolved like any
\* other: whois is asked, status too when whois gave 0, and the identity the
\* oracle gives is reported.
C10_LoopbackIsOwner ==
    (ServedReq /\ req.addr \in Loopback4) =>
        IF ModeIs(S_EVERYONE)
        THEN /\ req.gate.whois = 1
             /\ req.gate.status = (IF WhoisAnswer[req.w] = 0 THEN 1 ELSE 0)
             /\ req.gate.uid = WhoisAnswer[req.w]
        ELSE /\ req.gate.uid = g_personal_id
             /\ req.gate.whois = 0 /\ req.gate.status = 0

C10_Witness ==
    /\ req.h = "clip" /\ g_mode = S_PERSONAL /\ g_personal_id = OwnerId
    /\ req.addr = A_lo4b /\ req.w = "contact"
    /\ req.gate = GateResult("allow", OwnerId, 0, 0)
    /\ req.eff.status = 200

\* C11: a loopback peer under PERSONAL or CONTACTS_ONLY with a non-zero
\* owner identity is allowed and reported as the owner, whatever the oracle
\* would answer: the oracle is not asked.
C11_LoopbackOwnerAllowed ==
    (/\ ServedReq
     /\ req.addr \in Loopback4 \cup Loopback6
     /\ ModeIs(S_PERSONAL) \/ ModeIs(S_CONTACTS_ONLY)
     /\ g_personal_id # 0) => req.gate = GateResult("allow", g_personal_id, 0, 0)

C11_Witness ==
    /\ req.h = "drop" /\ g_mode = S_CONTACTS_ONLY /\ g_personal_id = OwnerId
    /\ req.addr = A_lo4b /\ req.w = "flat_stranger" /\ req.s = "peers"
    /\ req.gate = GateResult("allow", OwnerId, 0, 0)

\* the identity of the peer whose address list in the status answer holds
\* the address, 0 when no list holds it
Listed(addr, s) ==
    IF s = "fail" THEN 0
    ELSE IF addr \in {A_ts7, A_v6} THEN ContactIds[1]
    ELSE IF addr = A_ts50 THEN ContactIds[NumContacts]
    ELSE IF addr = A_self THEN OwnerId
    ELSE 0

\* the request went through the oracle chain: the address is there and the
\* localhost shortcut does not apply
Chained ==
    /\ ServedReq /\ req.addr # A_none
    /\ ModeIs(S_EVERYONE) \/ req.addr \notin Loopback4 \cup Loopback6

\* C12: the resolution of a remote peer is an ordered chain that stops at
\* the first identity.  whois runs first and gives its nested UserProfile ID,
\* or its flat User field when the profile has none; status runs only when
\* whois gave nothing; when both give nothing the identity is 0 and the
\* caller still gets a verdict and a response.
C12_ResolutionChain ==
    Chained =>
        /\ req.gate.whois = 1
        /\ req.gate.status = (IF WhoisAnswer[req.w] = 0 THEN 1 ELSE 0)
        /\ WhoisAnswer[req.w] # 0 => req.gate.uid = WhoisAnswer[req.w]
        /\ (WhoisAnswer[req.w] = 0 /\ Listed(req.addr, req.s) # 0)
                => req.gate.uid = Listed(req.addr, req.s)
        /\ (WhoisAnswer[req.w] = 0 /\ req.s = "fail")
                => /\ req.gate.uid = 0
                   /\ req.gate.verdict \in {"allow", "deny"}
                   /\ req.eff.responses = 1 /\ ~req.eff.crashed

C12_Witness ==
    /\ req.h = "clip" /\ g_mode = M_contacts_lc
    /\ req.addr = A_ts5 /\ req.w = "contact" /\ req.s = "peers"
    /\ req.gate = GateResult("allow", ContactIds[1], 1, 0)

\* C13: fallback equivalence.  A connection whose identity N came from the
\* status fallback, whois having given nothing, gets the verdict and the
\* reported identity that the same peer under the same mode and policy
\* document gets when whois itself gives N.
C13_FallbackEquivalence ==
    (Chained /\ WhoisAnswer[req.w] = 0 /\ Listed(req.addr, req.s) # 0) =>
        \A w2 \in { x \in WhoisNames : WhoisAnswer[x] = Listed(req.addr, req.s) } :
        \E g \in { auth_is_allowed_conn(g_mode, g_personal_id, g_cfg_json,
                                        req.addr, w2, req.s) } :
            /\ g.verdict = req.gate.verdict
            /\ g.uid = req.gate.uid

C13_Witness ==
    /\ req.h = "drop" /\ g_mode = S_CONTACTS_ONLY
    /\ req.addr = A_ts7 /\ req.w = "empty" /\ req.s = "peers"
    /\ req.gate = GateResult("allow", ContactIds[1], 1, 1)
    /\ auth_is_allowed_conn(g_mode, g_personal_id, g_cfg_json, req.addr, "contact", req.s)
            = GateResult("allow", ContactIds[1], 1, 0)

\* C14: the status fallback gives a peer's identity only when the peer's
\* address list holds the queried address as an element; an address that is
\* only a part of a listed one resolves to nobody.
C14_StatusExactMatch ==
    (Chained /\ req.gate.status = 1) => req.gate.uid = Listed(req.addr, req.s)

\* the policy file can be opened for reading
Readable(f) == f.exists /\ f.readable

\* the identities a cached document lists as contacts
KnownIds == {OwnerId, StrangerId, SampleIds.node} \cup Range(ContactIds)
ContactsOf(json) ==
    { n \in KnownIds : json.some /\ json_contains_ll_in_array(json.v, K_contacts, n) }

\* C15: policy loading fails open.  Whenever loading or creating the policy
\* file fails - the path cannot be built, the file can neither be read nor
\* written, the write falls short, or the file just written cannot be read
\* back - auth_init leaves mode EVERYONE and owner identity 0, and returns.
C15_FailOpen ==
    boot.called =>
        /\ ( \/ g_cfg_path = NullPath
             \/ /\ ~Readable(boot.was)
                /\ \/ ~boot.was.writable
                   \/ boot.wr # "full"
                   \/ boot.was.exists ) => ~boot.ok
        /\ ~boot.ok => g_mode = S_EVERYONE /\ g_personal_id = 0

C15_Witness ==
    /\ boot.called /\ boot.how = "rereadfail" /\ ~boot.ok
    /\ boot.uid = OwnerId
    /\ cfgFile.text = Serialise(DefaultDoc(OwnerId))
    /\ g_mode = S_EVERYONE /\ g_personal_id = 0

\* C16: auth_init returns 1 on success and 0 on failure.
C16_ReturnsFailure ==
    boot.called => boot.ret = (IF boot.ok THEN 1 ELSE 0)

\* C17 as first stated: after load-or-create the policy file is well-formed;
\* a missing file, and equally a readable file without a mode string and an
\* owner id, has been replaced by the default document.
C17_UnparsableRecreated ==
    (/\ boot.called /\ g_cfg_path # NullPath
     /\ boot.was.writable /\ boot.wr = "full"
     /\ ~boot.was.exists \/ boot.was.text \in Malformed)
        => cfgFile.text = Serialise(DefaultDoc(boot.uid))

\* C17: a policy file that is missing, or cannot be opened for reading, is
\* written anew with the default document (mode EVERYONE, the owner the self
\* lookup found, no contacts) when the write goes through.  A file that can
\* be read is never rewritten, parsable or not: it stays as it is and is
\* cached as it is, the owner identity being 0 when it names none.
C17_MissingRecreated ==
    (boot.called /\ g_cfg_path # NullPath) =>
        IF Readable(boot.was)
        THEN /\ boot.how = "loaded" /\ boot.ok
             /\ cfgFile = boot.was
             /\ g_cfg_json = Text(boot.was.text)
             /\ boot.was.text \in Malformed => g_personal_id = 0
        ELSE /\ boot.how # "loaded"
             /\ (boot.was.writable /\ boot.wr = "full")
                    => /\ cfgFile.exists
                       /\ cfgFile.text = Serialise(DefaultDoc(boot.uid))

C17_Witness ==
    /\ boot.called /\ boot.how = "loaded" /\ boot.ok
    /\ boot.was = File(TRUE, TRUE, TRUE, <<>>)
    /\ cfgFile = boot.was
    /\ g_cfg_json = Text(<<>>) /\ g_personal_id = 0

\* the first location whose setting is there, the default being always there
FirstSet(e) ==
    LET order  == <<P_config, P_confpath, P_confdir, P_default>>
        there  == <<e.config, e.conf_path, e.conf_dir, TRUE>>
    IN order[CHOOSE i \in 1..4 : there[i] /\ \A j \in 1..(i - 1) : ~there[j]]

\* C18 as first stated: the first candidate location that holds a readable
\* file is the one loaded, and a file is created only when no candidate
\* location holds one.
C18_FirstExistingWins ==
    boot.called =>
        /\ boot.how = "loaded" => Readable(boot.was)
        /\ boot.how = "created" => (others = {} /\ ~boot.was.exists)

\* C18: the location is the first one whose setting is there, in the order
\* SPACEDROP_CONFIG, SPACEDROP_CONF_PATH, SPACEDROP_CONF_DIR/config.json,
\* ~/.config/spacedrop/config.json, whether or not a file is there.  The file
\* at that location is loaded when it can be read; otherwise one is written
\* at that location, whatever files the later locations hold.
C18_FirstSetWins ==
    /\ g_cfg_path \in {NullPath, FirstSet(env)}
    /\ (boot.called /\ (boot.pathOk \/ g_cfg_path # NullPath)) =>
        /\ g_cfg_path = FirstSet(env)
        /\ boot.how = "loaded" <=> Readable(boot.was)
        /\ (~Readable(boot.was) /\ boot.was.writable /\ boot.wr = "full")
                => cfgFile.text = Serialise(DefaultDoc(boot.uid))

C18_Witness ==
    /\ boot.called /\ boot.how = "created"
    /\ env = Settings(FALSE, TRUE, TRUE) /\ g_cfg_path = P_confpath
    /\ others = {P_confdir, P_default}
    /\ ~boot.was.exists /\ cfgFile.exists

\* C19: round trip.  A policy document that config_load_or_create has just
\* created, loaded again at once, gives mode EVERYONE, the owner identity the
\* self lookup had found (0 when it found none) and no contacts.
C19_RoundTrip ==
    (boot.called /\ boot.prev.how = "created") =>
        /\ boot.how = "loaded" /\ boot.ok
        /\ g_mode = S_EVERYONE
        /\ g_personal_id = boot.prev.uid
        /\ ContactsOf(g_cfg_json) = {}

C19_Witness ==
    /\ boot.called /\ boot.prev = [how |-> "created", uid |-> OwnerId]
    /\ boot.how = "loaded"
    /\ g_mode = S_EVERYONE /\ g_personal_id = OwnerId
    /\ g_cfg_json = Text(Serialise(DefaultDoc(OwnerId)))

\* C20: idempotence.  A second call of auth_init right after a first one,
\* the policy file untouched in between and the path and the write behaving
\* as before, leaves the mode, the owner identity and the contacts of the
\* first call.
C20_Idempotent ==
    [][(/\ boot.called /\ boot'.called
        /\ boot'.pathOk = boot.pathOk /\ boot'.wr = boot.wr)
            => /\ g_mode' = g_mode
               /\ g_personal_id' = g_personal_id
               /\ ContactsOf(g_cfg_json') = ContactsOf(g_cfg_json)]_vars

\* the mode string a policy file holds, if it can be read and holds one
FileMode(f) ==
    IF f.exists /\ f.readable THEN json_find_str_value(f.text, K_mode) ELSE NullText

\* no call of auth_init has got as far as resolving the location of the file
Uninitialised == g_cfg_path = NullPath

\* C21 as first stated: the first gate invocation loads the policy file, and
\* its verdict follows the mode stored in the file: a request served while no
\* initialization has been done, the file holding mode OFF, is denied.
C21_LazyLoad ==
    (ServedReq /\ Uninitialised /\ FileMode(cfgFile).some
        /\ SameButCase(FileMode(cfgFile).v, S_OFF)) => Denied

\* C21: the gate never loads or creates the policy file; the only
\* initialization is the call of auth_init that main makes before the server
\* starts.  A request served before any initialization is judged by the
\* static defaults (mode EVERYONE, owner 0, no document): it is allowed
\* whatever the policy file holds, and the cache and the file stay as they
\* were.
C21_NoLazyLoad ==
    [][(req = NoRequest /\ req' # NoRequest /\ Uninitialised)
        => /\ req'.gate.verdict = "allow"
           /\ g_cfg_path' = NullPath /\ g_cfg_json' = NullText
           /\ g_mode' = S_EVERYONE /\ g_personal_id' = 0
           /\ cfgFile' = cfgFile]_vars

C21_Witness ==
    /\ req.h = "drop" /\ Uninitialised /\ ~boot.called
    /\ cfgFile = File(TRUE, TRUE, TRUE, Serialise(PolicyDoc(S_OFF, OwnerId, ContactIds)))
    /\ req.addr = A_ts5 /\ req.w = "flat_stranger"
    /\ Allowed /\ req.eff.status = 200 /\ req.eff.clip > 0

AllDone == \A t \in Threads : thr.pc[t] = "done"

\* the cached mode and owner identity are the ones the policy file holds
CacheMatchesFile ==
    /\ FileMode(cfgFile) = Text(g_mode)
    /\ json_find_ll_value(cfgFile.text, 1, K_personal) = g_personal_id

CachedContacts ==
    UNION { d.contacts : d \in { x \in LoadedDocs : g_cfg_json.some /\ x.text = g_cfg_json.v } }

\* the verdict the cached mode, owner and contacts call for
CacheAllows ==
    \/ ModeIs(S_EVERYONE)
    \/ /\ ModeIs(S_PERSONAL)
       /\ req.gate.uid # 0 /\ req.gate.uid = g_personal_id
    \/ /\ ModeIs(S_CONTACTS_ONLY)
       /\ req.gate.uid # 0
       /\ req.gate.uid = g_personal_id \/ req.gate.uid \in CachedContacts

\* C24: the cached policy changes in auth_init only.  No handler with its
\* gate invocation and no call of auth_mode_str changes the cached mode, the
\* cached owner identity, the cached document or the policy file, and an
\* edit of the file by the owner changes nothing of the cache; every verdict
\* is the one the cached mode, owner and contacts call for, whatever the
\* file holds by then.
C24_CacheImmutable ==
    /\ [][~boot'.called =>
            /\ auth_mode_str' = auth_mode_str
            /\ UNCHANGED <<g_cfg_path, g_cfg_json, g_personal_id>>]_vars
    /\ [][(req' # req \/ (boot' # boot /\ ~boot'.called)) => cfgFile' = cfgFile]_vars
    /\ [](ServedReq => /\ Allowed <=> CacheAllows
                       /\ ~Allowed => Denied)

C24_Witness ==
    /\ req.h = "clip" /\ g_mode = M_off_lc /\ g_personal_id = OwnerId
    /\ g_cfg_json = Text(Serialise(PolicyDoc(M_off_lc, OwnerId, ContactIds)))
    /\ cfgFile = File(TRUE, TRUE, TRUE, Serialise(PolicyDoc(M_contacts_lc, OwnerId, ContactIds)))
    /\ req.addr = A_ts7 /\ req.w = "contact"
    /\ req.gate.uid = ContactIds[1] /\ Denied /\ req.eff.status = 403

\* C26: whenever the cached mode is not EVERYONE the cached document is
\* there, after any sequence of calls of auth_init, failed ones included; so
\* no gate invocation scans a missing document for contacts, and no verdict
\* is left undefined.
C26_DocumentPresent ==
    /\ g_mode # S_EVERYONE => g_cfg_json.some
    /\ ServedReq => (req.gate.verdict \in {"allow", "deny"} /\ ~req.eff.crashed)

C26_Witness ==
    /\ req.h = "drop" /\ g_mode = S_CONTACTS_ONLY /\ g_personal_id = 0
    /\ g_cfg_json = Text(Serialise(PolicyDoc(S_CONTACTS_ONLY, 0, ContactIds)))
    /\ ~Readable(cfgFile)
    /\ req.addr = A_v6 /\ req.w = "fail" /\ req.s = "peers"
    /\ req.gate = GateResult("allow", ContactIds[1], 1, 1)

\* the values the lines of ".env" give to a name, in the order of the lines
ValuesFor(k) ==
    LET Gives(i) == \E kv \in {env_parse_line(dotenv.lines[i])} : kv.some /\ kv.key = k
    IN [j \in 1..Cardinality({ i \in DOMAIN dotenv.lines : Gives(i) }) |->
          env_parse_line(dotenv.lines[
              CHOOSE i \in DOMAIN dotenv.lines :
                  /\ Gives(i)
                  /\ Cardinality({ h \in 1..i : Gives(h) }) = j]).val]

\* the variables the call has set
NewlySet == DOMAIN environ \ DOMAIN loaded.before

\* what C25 says of every call but for the value of a variable it has set
KeepsAndCounts ==
    /\ \A k \in DOMAIN loaded.before : k \in DOMAIN environ /\ environ[k] = loaded.before[k]
    /\ ~dotenv.exists => (loaded.ret = -1 /\ environ = loaded.before)
    /\ dotenv.exists => loaded.ret = Cardinality(NewlySet)
    /\ \A k \in NewlySet : ValuesFor(k) # <<>>

\* C25 as first stated: env_load_default never changes a variable that is
\* set, sets only variables that were unset, returns the number of variables
\* it has set or -1 when the file cannot be opened, and a variable it has set
\* has the value of the first occurrence of its name in the file.
C25_FirstOccurrenceWins ==
    loaded.called =>
        /\ KeepsAndCounts
        /\ \A k \in NewlySet : environ[k] = ValuesFor(k)[1]

\* C25: env_load_default never changes a variable that is set (a variable
\* set to the empty string included), sets only variables that were unset,
\* and returns the number of variables it has set, or -1 when the file
\* cannot be opened.  A variable it has set has the value of the first
\* occurrence of its name for which setenv succeeded: the first one of the
\* file, or a later one when setenv has failed.
C25_FirstSetWins ==
    loaded.called =>
        /\ KeepsAndCounts
        /\ \A k \in NewlySet :
              \/ environ[k] = ValuesFor(k)[1]
              \/ loaded.failed /\ Len(ValuesFor(k)) >= 2 /\ environ[k] = ValuesFor(k)[2]

C25_Witness ==
    /\ loaded.called /\ ~loaded.failed /\ loaded.ret = 1
    /\ dotenv = Dotenv(TRUE, <<L_Bq, L_A1, L_A2>>)
    /\ loaded.before = setenv(NoEnviron, N_B, V_0)
    /\ environ = setenv(setenv(NoEnviron, N_B, V_0), N_A, V_1)

\* the request was let in as a POST
LetIn == ServedReq /\ Allowed /\ req.in.method = "POST"

\* C27: every request dispatched to handle_drop or to handle_clip_push ends
\* with exactly one response and the handler returning 1, on every path:
\* denied, wrong method, too large, out of memory, unsupported content type
\* or kind, missing text, malformed multipart, failed save, success.
C27_OneResponse ==
    ServedReq =>
        /\ req.eff.responses = 1 /\ req.eff.ret = 1 /\ ~req.eff.crashed
        /\ req.eff.status \in {200, 400, 403, 405, 413, 422, 500}
        /\ Denied <=> req.eff.status = 403
        /\ (Allowed /\ req.in.method # "POST") <=> req.eff.status = 405
        /\ (LetIn /\ req.in.ct = "urlencoded" /\ req.in.len = "toolarge")
                <=> req.eff.status = 413
        /\ (LetIn /\ req.in.ct = "other") => req.eff.status = 400
        /\ (LetIn /\ req.in.ct = "multipart" /\ req.in.mp # "stored") => req.eff.status = 400

C27_Witness ==
    /\ req.h = "drop" /\ LetIn /\ req.in.ct = "multipart" /\ req.in.mp = "stored"
    /\ ~req.in.wrapper /\ ~req.in.dlOk
    /\ g_mode = S_PERSONAL /\ req.addr = A_ts5 /\ req.gate.uid = OwnerId
    /\ req.eff.status = 500 /\ req.eff.responses = 1 /\ req.eff.ret = 1

\* C28: when handle_drop returns after a multipart upload for which a
\* temporary file was made, that file is no longer at its temporary path:
\* it was moved to the downloads directory or deleted.
C28_TempFileGone ==
    (LetIn /\ req.h = "drop" /\ req.in.ct = "multipart" /\ req.in.mp # "nofile")
        => ~req.eff.tmpLeft

\* C29: for one accepted urlencoded drop of a text that is no URL,
\* handle_drop writes the clipboard at most once whatever SPACEDROP_DROP_TEXT
\* is: once for "clipboard" and for "both", never for "file"; and the "ok" or
\* "clipboard" member of the response reports the outcome of that one write.
C29_ClipboardOnce ==
    (/\ LetIn /\ req.h = "drop" /\ req.in.ct = "urlencoded"
     /\ req.in.len = "ok" /\ ~req.in.oom /\ req.in.text = "plain") =>
        /\ req.eff.clip <= 1
        /\ req.in.dropText \in {"clipboard", "both"} => req.eff.clip = 1
        /\ req.in.dropText = "file" => req.eff.clip = 0
        /\ req.eff.flag # "none" => req.eff.flag = Flag(req.in.clipOk)

\* C30: saving a dropped file never overwrites an existing file.  The path
\* unique_enumerated_path returns is the first of "name.ext", "name (1).ext",
\* ... that does not exist; the files the directory held stay as they were;
\* and two uploads with the same file name, saved by two workers at the same
\* time, end under two different paths, each with its own content.
C30_NeverOverwrites ==
    /\ \A p \in wrk.had : p \in DOMAIN downloads /\ downloads[p] = OwnFile
    /\ \A t \in Threads : wrk.pc[t] \in {"rename", "saved", "failed"} =>
          /\ wrk.out[t] = enumerated_path(DlDir, wrk.name[t], wrk.i[t])
          /\ wrk.out[t] \notin wrk.had
          /\ \A j \in 0..(wrk.i[t] - 1) :
                enumerated_path(DlDir, wrk.name[t], j) \in DOMAIN downloads
    /\ \A t, u \in Threads :
          (t # u /\ wrk.pc[t] = "saved" /\ wrk.pc[u] = "saved") =>
              /\ wrk.out[t] # wrk.out[u]
              /\ downloads[wrk.out[t]] = wrk.tmp[t]

====
